---- MODULE Spec2Model ----
(***************************************************************************)
(* DDL-to-bytecode compilation of src/box/sql/build.c: the CREATE TABLE    *)
(* builder (draft table, indexes, constraints), the record-undo ledger,    *)
(* sql_finish_coding, and the execution of the emitted VDBE program        *)
(* against the system catalog.                                             *)
(*                                                                         *)
(* C arrays are 0-based; sequences here are 1-based, so slot i of a C      *)
(* array is element i+1 of the sequence.  Field numbers, index ids, VDBE   *)
(* addresses and registers keep their C values.                            *)
(* Memory allocation is taken to succeed (no OutOfMemory path is taken).   *)
(***************************************************************************)
EXTENDS Integers, Sequences, FiniteSets, TLC

(* ------------------------------------------------------------------ *)
(* Bounds of the model                                                  *)
(* ------------------------------------------------------------------ *)
MaxCols == 2        \* columns of the draft table
MaxIndexes == 2     \* indexes attached to the draft table
MaxFk == 1          \* pending foreign keys
MaxCk == 2          \* pending check constraints
MaxKeyLen == 5      \* length of a key-part list given to the dedup loop
MaxFkDecl == 2      \* foreign keys declared in a statement of SpecFk
MaxExprLen == 5     \* characters of a check expression given to SpecTrim

VARIABLES
    phase,      \* position of the parser / of the statement's life cycle
    parse,      \* struct Parse: the per-statement compilation context
    pc,         \* VDBE program counter (address of the next instruction)
    aMem,       \* VDBE registers
    box,        \* rows of the system spaces
    rc,         \* result of the execution: "none", "running", "ok", "error"
    csr,        \* open VDBE cursors
    trace,      \* history of executed catalog operations
    keyin,      \* the input of a routine run on its own: a key-part list
                \* for the duplicate-removal loop, the source text of a
                \* check expression for trim_space_snprintf, the
                \* arguments of a DROP or CREATE VIEW statement
    keyout      \* the key parts the loop leaves

vars == <<phase, parse, pc, aMem, box, rc, csr, trace, keyin, keyout>>

(* ------------------------------------------------------------------ *)
(* Small helpers                                                        *)
(* ------------------------------------------------------------------ *)
Max(a, b) == IF a >= b THEN a ELSE b

HasPrefix(s, pre) ==
    /\ Len(s) >= Len(pre)
    /\ \A i \in 1..Len(pre) : s[i] = pre[i]

(* enum on_conflict_action values used for nullability *)
ON_CONFLICT_ACTION_NONE == "none"
ON_CONFLICT_ACTION_ABORT == "abort"
ON_CONFLICT_ACTION_FAIL == "fail"
ON_CONFLICT_ACTION_DEFAULT == "default"

action_is_nullable(a) == a = ON_CONFLICT_ACTION_NONE

FIELD_TYPE_INTEGER == "integer"
FIELD_TYPE_STRING == "string"

COLL_NONE == "COLL_NONE"

(* coll_by_id(id)->coll: the collation object behind an id; the "none"   *)
(* collation has no object.                                              *)
CollOf(coll_id) == IF coll_id = COLL_NONE THEN <<"NULL">> ELSE <<"coll", coll_id>>

(* Collations known to the collation cache. *)
KnownColls == {"unicode"}

(* ------------------------------------------------------------------ *)
(* VDBE values and instructions                                         *)
(* ------------------------------------------------------------------ *)
VNull == [k |-> "null", n |-> 0, s |-> <<>>]
VInt(n) == [k |-> "int", n |-> n, s |-> <<>>]
VStr(s) == [k |-> "str", n |-> 0, s |-> s]
VBool(b) == [k |-> "bool", n |-> IF b THEN 1 ELSE 0, s |-> <<>>]
VBlob(s) == [k |-> "blob", n |-> 0, s |-> s]
(* run-time generated ids: IncMaxid and NextSequenceId results *)
VId(kind, n) == [k |-> kind, n |-> n, s |-> <<>>]

Op(opcode, p1, p2, p3) ==
    [opcode |-> opcode, p1 |-> p1, p2 |-> p2, p3 |-> p3, p4 |-> VNull, p5 |-> "0"]
Op4(opcode, p1, p2, p3, p4) ==
    [opcode |-> opcode, p1 |-> p1, p2 |-> p2, p3 |-> p3, p4 |-> p4, p5 |-> "0"]

(* system space ids are kept symbolic *)
BOX_SPACE_ID == "_space"
BOX_INDEX_ID == "_index"
BOX_SEQUENCE_ID == "_sequence"
BOX_SPACE_SEQUENCE_ID == "_space_sequence"
BOX_FK_CONSTRAINT_ID == "_fk_constraint"
BOX_CK_CONSTRAINT_ID == "_ck_constraint"
BOX_SEQUENCE_DATA_ID == "_sequence_data"
BOX_TRUNCATE_ID == "_truncate"
BOX_TRIGGER_ID == "_trigger"

SQL_OK == "SQL_OK"
SQL_TARANTOOL_ERROR == "SQL_TARANTOOL_ERROR"

(* sqlVdbeAddOp*: append an instruction; its address is the old nOp *)
nOp(p) == Len(p.aOp)
AddOp(p, op) == [p EXCEPT !.aOp = Append(@, op)]
(* sqlVdbeChangeP2(v, addr, val) *)
ChangeP2(p, addr, val) == [p EXCEPT !.aOp[addr + 1].p2 = val]

Abort(p, code) == [p EXCEPT !.is_aborted = TRUE, !.diag = code]

(* ------------------------------------------------------------------ *)
(* The compilation context after construction                           *)
(* ------------------------------------------------------------------ *)
ParseInit ==
    [ new_space     |-> "NULL",      \* create_table_def.new_space (its name)
      fields        |-> <<>>,        \* new_space->def->fields[0..field_count)
      index         |-> <<>>,        \* new_space->index[0..index_count)
      index_id_max  |-> 0,
      has_autoinc   |-> FALSE,
      if_not_exist  |-> FALSE,
      initiateTTrans |-> FALSE,
      new_fkey      |-> <<>>,        \* rlist, head first
      new_check     |-> <<>>,        \* rlist, head first
      fkey_count    |-> 0,
      check_count   |-> 0,
      is_aborted    |-> FALSE,
      diag          |-> "none",
      crashed       |-> FALSE,       \* a failed assert / NULL dereference
      nMem          |-> 0,
      nTab          |-> 0,
      iRangeReg     |-> 0,
      nRangeReg     |-> 0,
      record_list   |-> <<>>,        \* rlist of saved_record, head first
      aOp           |-> <<>> ]

(* ------------------------------------------------------------------ *)
(* Draft table: columns                                                 *)
(* ------------------------------------------------------------------ *)
field_def_default(name, type) ==
    [ name |-> name, type |-> type,
      nullable_action |-> ON_CONFLICT_ACTION_DEFAULT, is_nullable |-> TRUE,
      coll_id |-> COLL_NONE ]

(* fieldno of the column called name, -1 if there is none *)
ColumnNo(fields, name) ==
    IF \E i \in 1..Len(fields) : fields[i].name = name
    THEN (CHOOSE i \in 1..Len(fields) :
              /\ fields[i].name = name
              /\ \A j \in 1..(i - 1) : fields[j].name # name) - 1
    ELSE -1

sqlStartTable(p, name) ==
    [p EXCEPT !.new_space = name,
              !.aOp = <<Op("Init", 0, 1, 0)>>]

(* a column added without looking at the names already there *)
sqlAddColumnUnchecked(p, name, type) ==
    IF p.new_space = "NULL" THEN p
    ELSE [p EXCEPT !.fields = Append(@, field_def_default(name, type))]

(* name is the normalized name z the function compares and stores *)
sqlAddColumn(p, name, type) ==
    IF p.new_space = "NULL" THEN p
    ELSE IF ColumnNo(p.fields, name) # -1
         THEN Abort(p, "ER_SPACE_FIELD_IS_DUPLICATE")
         ELSE [p EXCEPT !.fields = Append(@, field_def_default(name, type))]

(* a setter that overwrites whatever was declared before *)
sql_column_set_nullable_action(p, nullable_action) ==
    IF p.new_space = "NULL" \/ Len(p.fields) < 1 THEN p
    ELSE [p EXCEPT !.fields[Len(p.fields)].nullable_action = nullable_action,
                   !.fields[Len(p.fields)].is_nullable =
                       action_is_nullable(nullable_action)]

sql_column_add_nullable_action(p, nullable_action) ==
    IF p.new_space = "NULL" \/ Len(p.fields) < 1 THEN p
    ELSE LET n == Len(p.fields)
             field == p.fields[n]
         IN IF /\ field.nullable_action # ON_CONFLICT_ACTION_DEFAULT
               /\ nullable_action # field.nullable_action
            THEN Abort(p, "ER_SQL: NULL declaration has been already set")
            ELSE [p EXCEPT !.fields[n].nullable_action = nullable_action,
                           !.fields[n].is_nullable =
                               action_is_nullable(nullable_action)]

(* ------------------------------------------------------------------ *)
(* Draft table: indexes                                                 *)
(* ------------------------------------------------------------------ *)
SQL_INDEX_TYPE_CONSTRAINT_UNIQUE == "unique_constraint"
SQL_INDEX_TYPE_CONSTRAINT_PK == "pk_constraint"

(* a test that takes any attached index for the primary key *)
HasAnyIndex(p) == Len(p.index) # 0

(* sql_space_primary_key(space) != NULL *)
HasPrimaryKey(p) == Len(p.index) # 0 /\ p.index[1].iid = 0

constraint_is_named(name) ==
    /\ ~HasPrefix(name, <<"sql_autoindex_">>)
    /\ ~HasPrefix(name, <<"pk_", "unnamed_">>)
    /\ ~HasPrefix(name, <<"unique_", "unnamed_">>)

(* The index name invented for a UNIQUE / PRIMARY KEY constraint of a   *)
(* CREATE TABLE: sqlMPrintf(prefix, def->name or constraint_name,       *)
(* idx_count + 1).  Names are sequences of tokens.                      *)
ConstraintIndexName(p, cname, idx_type) ==
    LET head == IF idx_type = SQL_INDEX_TYPE_CONSTRAINT_UNIQUE
                THEN <<"unique_">> ELSE <<"pk_">>
        body == IF cname = <<>> THEN <<"unnamed_", p.new_space>> ELSE cname
    IN head \o body \o <<"_", ToString(Len(p.index) + 1)>>

(* sqlCheckIdentifierName: a name longer than BOX_NAME_MAX is rejected.
   The token "x65000" stands for an identifier of BOX_NAME_MAX
   characters, legal by itself; a name built around it is too long. *)
NameTooLong(name) == \E i \in 1..Len(name) : name[i] = "x65000"

sqlCheckIdentifierName(p, name) ==
    IF NameTooLong(name) THEN Abort(p, "ER_IDENTIFIER") ELSE p

(* an attachment that leaves index_id_max as it was *)
table_add_index_keep_max(p, idx) ==
    LET idx_count == Len(p.index)
        swapped == idx.iid = 0 /\ idx_count # 0
        arr == IF swapped
               THEN Append([p.index EXCEPT ![1] = idx], p.index[1])
               ELSE Append(p.index, idx)
    IN [p EXCEPT !.index = arr]

(* table_add_index *)
table_add_index(p, idx) ==
    LET idx_count == Len(p.index)
        swapped == idx.iid = 0 /\ idx_count # 0
        arr == IF swapped
               THEN Append([p.index EXCEPT ![1] = idx], p.index[1])
               ELSE Append(p.index, idx)
    IN [p EXCEPT !.index = arr,
                 !.index_id_max = Max(p.index_id_max, idx.iid)]

(* one key part of index_fill_def; item = [name, coll], coll = "" when
   the expression carries no COLLATE *)
KeyPartOf(p, item) ==
    LET fieldno == ColumnNo(p.fields, item.name)
        f == p.fields[fieldno + 1]
        coll_id == IF item.coll # "" THEN item.coll ELSE f.coll_id
    IN [ fieldno |-> fieldno, type |-> f.type,
         nullable_action |-> f.nullable_action,
         is_nullable |-> f.nullable_action = ON_CONFLICT_ACTION_NONE,
         coll_id |-> coll_id, coll |-> CollOf(coll_id) ]

ItemIsBad(p, item) ==
    \/ ColumnNo(p.fields, item.name) = -1
    \/ item.coll # "" /\ item.coll \notin KnownColls

(* index_fill_def fails at the first expression it cannot resolve *)
IndexFillFails(p, col_list) ==
    \E i \in 1..Len(col_list) : ItemIsBad(p, col_list[i])

IndexFillDiag(p, col_list) ==
    LET i == CHOOSE i \in 1..Len(col_list) :
                 /\ ItemIsBad(p, col_list[i])
                 /\ \A j \in 1..(i - 1) : ~ItemIsBad(p, col_list[j])
    IN IF ColumnNo(p.fields, col_list[i].name) = -1
       THEN "ER_SQL: cannot resolve column"
       ELSE "ER_NO_SUCH_COLLATION"

(* Removal of repeated columns, as the loop of sql_create_index does it:
   part i is kept iff no kept part has its fieldno. *)
RECURSIVE RemoveRedundantFrom(_, _, _)
RemoveRedundantFrom(parts, i, kept) ==
    IF i > Len(parts) THEN kept
    ELSE RemoveRedundantFrom(parts, i + 1,
            IF \E j \in 1..Len(kept) : parts[i].fieldno = kept[j].fieldno
            THEN kept
            ELSE Append(kept, parts[i]))

(* a key that keeps every declared part *)
KeepAllParts(parts) == parts

RemoveRedundantParts(parts) == RemoveRedundantFrom(parts, 2, <<parts[1]>>)

(* the comparison of key parts in the CREATE TABLE loop of
   sql_create_index *)
SameKeyParts(a, b) ==
    /\ Len(a) = Len(b)
    /\ \A k \in 1..Len(a) :
          /\ a[k].fieldno = b[k].fieldno
          /\ a[k].coll = b[k].coll

(* existing index of slot i (1-based) ends the loop with "goto exit" *)
RetagsExisting(p, i, idx, idx_type) ==
    /\ SameKeyParts(idx.parts, p.index[i].parts)
    /\ idx_type = SQL_INDEX_TYPE_CONSTRAINT_PK
    /\ p.index[i].iid # 0
    /\ ~constraint_is_named(p.index[i].name)

DropsNew(p, i, idx, idx_type) ==
    /\ SameKeyParts(idx.parts, p.index[i].parts)
    /\ idx_type = SQL_INDEX_TYPE_CONSTRAINT_UNIQUE
    /\ ~constraint_is_named(idx.name)

MergeWithExisting(p, idx, idx_type) ==
    LET hits == {i \in 1..Len(p.index) :
                    RetagsExisting(p, i, idx, idx_type)
                    \/ DropsNew(p, i, idx, idx_type)}
    IN IF hits = {} THEN table_add_index(p, idx)
       ELSE LET i == CHOOSE i \in hits : \A j \in hits : i <= j
            IN IF RetagsExisting(p, i, idx, idx_type)
               THEN [p EXCEPT !.index[i].iid = 0]
               ELSE p

(* sql_create_index for an implied index of CREATE TABLE
   (tbl_name == NULL); col_list = <<>> stands for NULL.  The index keeps
   the constraint name the parser gave (create_entity_def.name), <<>>
   when the constraint has none. *)
sql_create_index(p, col_list, cname, idx_type) ==
    IF p.is_aborted \/ p.new_space = "NULL" THEN p
    ELSE IF Len(p.fields) = 0
    THEN Abort(p, "ER_UNSUPPORTED: space without format")
    ELSE
    LET name == ConstraintIndexName(p, cname, idx_type)
        cols == IF col_list = <<>>
                THEN <<[name |-> p.fields[Len(p.fields)].name, coll |-> ""]>>
                ELSE col_list
        iid == IF idx_type # SQL_INDEX_TYPE_CONSTRAINT_PK
               THEN p.index_id_max + 1 ELSE 0
    IN IF NameTooLong(name) THEN sqlCheckIdentifierName(p, name)
       ELSE IF IndexFillFails(p, cols) THEN Abort(p, IndexFillDiag(p, cols))
       ELSE LET parts == [i \in 1..Len(cols) |-> KeyPartOf(p, cols[i])]
                idx == [ name |-> name, iid |-> iid,
                         parts |-> RemoveRedundantParts(parts),
                         constraint_name |-> cname ]
            IN MergeWithExisting(p, idx, idx_type)

(* ------------------------------------------------------------------ *)
(* Draft table: primary key                                             *)
(* ------------------------------------------------------------------ *)
(* a primary key that leaves the nullability of its fields alone *)
field_def_keep_for_pk(p, fieldno) == p

field_def_create_for_pk(p, fieldno) ==
    LET field == p.fields[fieldno + 1]
    IN IF /\ field.nullable_action # ON_CONFLICT_ACTION_ABORT
          /\ field.nullable_action # ON_CONFLICT_ACTION_DEFAULT
       THEN Abort(p, "ER_NULLABLE_PRIMARY")
       ELSE IF field.nullable_action = ON_CONFLICT_ACTION_DEFAULT
       THEN [p EXCEPT !.fields[fieldno + 1].nullable_action =
                          ON_CONFLICT_ACTION_ABORT,
                      !.fields[fieldno + 1].is_nullable = FALSE]
       ELSE p

RECURSIVE PkFieldsFrom(_, _, _)
PkFieldsFrom(p, parts, i) ==
    IF i > Len(parts) THEN p
    ELSE PkFieldsFrom(field_def_create_for_pk(p, parts[i].fieldno),
                      parts, i + 1)

(* iCol after the name-resolution loop: the column of the last name of
   the list that is a column of the table, -1 if none is *)
RECURSIVE LastResolved(_, _, _, _)
LastResolved(fields, pList, i, iCol) ==
    IF i > Len(pList) THEN iCol
    ELSE LET c == ColumnNo(fields, pList[i].name)
         IN LastResolved(fields, pList, i + 1, IF c # -1 THEN c ELSE iCol)

(* a declaration that never finds an earlier primary key *)
NoPrimaryKeyYet(p) == FALSE

(* the test sqlAddPrimaryKey makes before anything else:
   sql_space_primary_key(space) != NULL *)
PrimaryKeyAlreadyDeclared(p) == HasPrimaryKey(p)

sqlAddPrimaryKey(p, pList, cname) ==
    IF p.new_space = "NULL" THEN p
    ELSE IF PrimaryKeyAlreadyDeclared(p)
    THEN Abort(p, "ER_CREATE_SPACE: primary key has been already declared")
    ELSE
    LET nTerm == IF pList = <<>> THEN 1 ELSE Len(pList)
        iCol == IF pList = <<>> THEN Len(p.fields) - 1
                ELSE LastResolved(p.fields, pList, 1, -1)
        is_int == /\ nTerm = 1 /\ iCol # -1
                  /\ p.fields[iCol + 1].type = FIELD_TYPE_INTEGER
        q == IF is_int
             THEN sql_create_index(p,
                      <<[name |-> p.fields[iCol + 1].name, coll |-> ""]>>,
                      cname, SQL_INDEX_TYPE_CONSTRAINT_PK)
             ELSE sql_create_index(p, pList, cname,
                                   SQL_INDEX_TYPE_CONSTRAINT_PK)
    IN IF ~is_int /\ p.has_autoinc
       THEN Abort(p, "ER_CREATE_SPACE: AUTOINCREMENT is only allowed on an INTEGER PRIMARY KEY")
       ELSE IF ~is_int /\ q.is_aborted THEN q
       ELSE IF ~HasPrimaryKey(q)
            THEN [q EXCEPT !.crashed = TRUE]      \* assert(pk != NULL)
            ELSE PkFieldsFrom(q, q.index[1].parts, 1)

(* ------------------------------------------------------------------ *)
(* Draft table: collation of the last column                            *)
(* ------------------------------------------------------------------ *)
(* The loop of sqlAddCollateType over the attached indexes: its counter
   hides the column number, so slot i is compared with the fieldno of
   the index of slot i, and the collation copied is that of column i. *)
RECURSIVE CollateIndexesFrom(_, _)
CollateIndexesFrom(p, i) ==
    IF i >= Len(p.index) THEN p
    ELSE IF Len(p.index[i + 1].parts) # 1
    THEN [p EXCEPT !.crashed = TRUE]      \* assert(part_count == 1)
    ELSE CollateIndexesFrom(
             IF p.index[i + 1].parts[1].fieldno = i
             THEN [p EXCEPT !.index[i + 1].parts[1].coll_id =
                                p.fields[i + 1].coll_id]
             ELSE p,
             i + 1)

sqlAddCollateType(p, coll_name) ==
    IF p.new_space = "NULL" THEN p
    ELSE IF coll_name \notin KnownColls
    THEN Abort(p, "ER_NO_SUCH_COLLATION")
    ELSE CollateIndexesFrom(
             [p EXCEPT !.fields[Len(p.fields)].coll_id = coll_name], 0)

(* ------------------------------------------------------------------ *)
(* Check constraints                                                    *)
(* ------------------------------------------------------------------ *)
IsSpace(c) == c \in {" ", "\t", "\n"}
IsQuote(c) == c \in {"'", "\""}

(* trim_space_snprintf: str is a sequence of characters *)
RECURSIVE TrimFrom(_, _, _, _, _)
TrimFrom(str, i, quote_type, is_prev_chr_space, out) ==
    IF i > Len(str) THEN out
    ELSE LET c == str[i]
         IN IF quote_type = "" /\ ~IsQuote(c) /\ IsSpace(c)
            THEN TrimFrom(str, i + 1, quote_type, TRUE,
                          IF is_prev_chr_space THEN out ELSE Append(out, " "))
            ELSE TrimFrom(str, i + 1,
                          IF quote_type = ""
                          THEN (IF IsQuote(c) THEN c ELSE "")
                          ELSE (IF c = quote_type THEN "" ELSE quote_type),
                          FALSE, Append(out, c))

(* a routine with one inside-quote flag that any quote character
   toggles *)
RECURSIVE ToggleFrom(_, _, _, _, _)
ToggleFrom(str, i, in_quote, is_prev_chr_space, out) ==
    IF i > Len(str) THEN out
    ELSE LET c == str[i]
         IN IF ~in_quote /\ ~IsQuote(c) /\ IsSpace(c)
            THEN ToggleFrom(str, i + 1, in_quote, TRUE,
                            IF is_prev_chr_space THEN out
                            ELSE Append(out, " "))
            ELSE ToggleFrom(str, i + 1,
                            IF IsQuote(c) THEN ~in_quote ELSE in_quote,
                            FALSE, Append(out, c))

trim_space_snprintf_any_quote(str) == ToggleFrom(str, 1, FALSE, FALSE, <<>>)

(* a copy without any change *)
copy_snprintf(str) == str

(* a routine that starts as if a whitespace had just been written *)
trim_space_snprintf_skip_leading(str) == TrimFrom(str, 1, "", TRUE, <<>>)

trim_space_snprintf(str) == TrimFrom(str, 1, "", FALSE, <<>>)

(* a name synthesis that reads check_count and does not advance it *)
sql_create_check_contraint_same_ordinal(p, cname, expr) ==
    LET unnamed == cname = <<>>
        ck_idx == p.check_count + 1
        name == IF unnamed
                THEN <<"CK_CONSTRAINT_", ToString(ck_idx), "_", p.new_space>>
                ELSE cname
        ck == [ name |-> name, expr_str |-> trim_space_snprintf(expr),
                language |-> "SQL" ]
    IN [p EXCEPT !.new_check = <<ck>> \o @]

sql_create_check_contraint(p, cname, expr) ==
    LET unnamed == cname = <<>>
        ck_idx == p.check_count + 1
        name == IF unnamed
                THEN <<"CK_CONSTRAINT_", ToString(ck_idx), "_", p.new_space>>
                ELSE cname
        ck == [ name |-> name, expr_str |-> trim_space_snprintf(expr),
                language |-> "SQL" ]
    IN [p EXCEPT !.check_count = IF unnamed THEN ck_idx ELSE @,
                 !.new_check = <<ck>> \o @]

(* ------------------------------------------------------------------ *)
(* Foreign keys declared inside CREATE TABLE                            *)
(* ------------------------------------------------------------------ *)
(* A foreign key and an index as the space cache holds them *)
CachedFk(name, child_id, parent_id) ==
    [name |-> name, child_id |-> child_id, parent_id |-> parent_id]

CachedIndex(name, iid) == [name |-> name, iid |-> iid]

(* The space cache the compiler reads.
   p(x, y): primary key (x), referenced by a foreign key of c.
   c(a, b): two secondary indexes, a sequence, a trigger, two checks, a
            foreign key to p and one to itself.
   m(a):    referenced by itself and, after that, by s.
   s(a):    a foreign key to m.
   v:       a view with a trigger.
   e, n:    spaces that have no index yet, not even a primary key (a
            space can be created without one outside SQL); e has the
            smallest id of the cache and n the largest.
   sequence is the id of the attached sequence, 0 when there is none. *)
CachedSpaces ==
    { [ name |-> "p", id |-> 512, is_view |-> FALSE,
        fields |-> <<"x", "y">>, pk_parts |-> <<0>>,
        index |-> <<CachedIndex("pk_p", 0)>>, sequence |-> 0,
        sql_triggers |-> <<>>, ck_constraint |-> <<>>,
        child_fk_constraint |-> <<>>,
        parent_fk_constraint |-> <<CachedFk("fk_c_p", 513, 512)>> ],
      [ name |-> "c", id |-> 513, is_view |-> FALSE,
        fields |-> <<"a", "b">>, pk_parts |-> <<0>>,
        index |-> <<CachedIndex("pk_c", 0), CachedIndex("i1", 1),
                    CachedIndex("i3", 3)>>,
        sequence |-> 7,
        sql_triggers |-> <<"tr">>, ck_constraint |-> <<"ck1", "ck2">>,
        child_fk_constraint |-> <<CachedFk("fk_c_p", 513, 512),
                                  CachedFk("fk_c_c", 513, 513)>>,
        parent_fk_constraint |-> <<CachedFk("fk_c_c", 513, 513)>> ],
      [ name |-> "m", id |-> 515, is_view |-> FALSE,
        fields |-> <<"a">>, pk_parts |-> <<0>>,
        index |-> <<CachedIndex("pk_m", 0)>>, sequence |-> 0,
        sql_triggers |-> <<>>, ck_constraint |-> <<>>,
        child_fk_constraint |-> <<CachedFk("fk_m_m", 515, 515)>>,
        parent_fk_constraint |-> <<CachedFk("fk_m_m", 515, 515),
                                   CachedFk("fk_s_m", 516, 515)>> ],
      [ name |-> "s", id |-> 516, is_view |-> FALSE,
        fields |-> <<"a">>, pk_parts |-> <<0>>,
        index |-> <<CachedIndex("pk_s", 0), CachedIndex("i1", 1)>>,
        sequence |-> 0,
        sql_triggers |-> <<>>, ck_constraint |-> <<"ck1">>,
        child_fk_constraint |-> <<CachedFk("fk_s_m", 516, 515)>>,
        parent_fk_constraint |-> <<>> ],
      [ name |-> "v", id |-> 514, is_view |-> TRUE,
        fields |-> <<"a">>, pk_parts |-> <<>>,
        index |-> <<>>, sequence |-> 0,
        sql_triggers |-> <<"tv">>, ck_constraint |-> <<>>,
        child_fk_constraint |-> <<>>, parent_fk_constraint |-> <<>> ],
      [ name |-> "e", id |-> 511, is_view |-> FALSE,
        fields |-> <<"a">>, pk_parts |-> <<>>,
        index |-> <<>>, sequence |-> 0,
        sql_triggers |-> <<>>, ck_constraint |-> <<>>,
        child_fk_constraint |-> <<>>, parent_fk_constraint |-> <<>> ],
      [ name |-> "n", id |-> 517, is_view |-> FALSE,
        fields |-> <<"a">>, pk_parts |-> <<>>,
        index |-> <<>>, sequence |-> 0,
        sql_triggers |-> <<>>, ck_constraint |-> <<>>,
        child_fk_constraint |-> <<>>, parent_fk_constraint |-> <<>> ] }

space_by_name(name) == {sp \in CachedSpaces : sp.name = name}

NameNo(names, name) ==
    IF \E i \in 1..Len(names) : names[i] = name
    THEN (CHOOSE i \in 1..Len(names) : names[i] = name) - 1
    ELSE -1

(* a fk_constraint_parse as memset leaves it; parent_name and
   parent_cols keep the REFERENCES clause for the properties *)
FkParseZero ==
    [ has_def |-> FALSE, name |-> <<>>, field_count |-> 0,
      child_id |-> 0, parent_id |-> 0, links |-> <<>>,
      selfref_cols |-> <<>>, is_self_referenced |-> FALSE,
      parent_name |-> "", parent_cols |-> <<>> ]

(* the comparisons of the number of child columns with the number of
   parent columns *)
fk_column_count_differs(child_count, parent_count) ==
    parent_count # child_count

(* links[i] of the "Fill links map" loop; -1 marks a field the loop
   leaves unset or cannot resolve *)
FkLink(p, i, is_self, parent, child_cols, parent_cols) ==
    [ parent_field |->
          IF is_self THEN -1
          ELSE IF parent_cols = <<>> THEN parent.pk_parts[i]
          ELSE NameNo(parent.fields, parent_cols[i]),
      child_field |->
          IF child_cols = <<>> THEN Len(p.fields) - 1
          ELSE ColumnNo(p.fields, child_cols[i]) ]

sql_create_foreign_key(p, cname, parent_name, child_cols, parent_cols) ==
    LET child_cols_count == IF child_cols = <<>> THEN 1 ELSE Len(child_cols)
        p1 == [p EXCEPT !.new_fkey = <<FkParseZero>> \o @]
        is_self == parent_name = p.new_space
        found == space_by_name(parent_name)
        parent == CHOOSE sp \in found : TRUE
        p2 == IF found = {} /\ is_self
              THEN [p1 EXCEPT !.new_fkey[1].selfref_cols = parent_cols,
                              !.new_fkey[1].is_self_referenced = TRUE]
              ELSE p1
        unnamed == cname = <<>>
        p3 == [p2 EXCEPT !.fkey_count = IF unnamed THEN @ + 1 ELSE @]
        name == IF unnamed
                THEN <<"FK_CONSTRAINT_", ToString(p3.fkey_count), "_",
                       p.new_space>>
                ELSE cname
        links == [i \in 1..child_cols_count |->
                     FkLink(p, i, is_self, parent, child_cols, parent_cols)]
        bad_link == \E i \in 1..child_cols_count :
                        \/ ~is_self /\ links[i].parent_field = -1
                        \/ links[i].child_field = -1
    IN IF found = {} /\ ~is_self THEN Abort(p1, "ER_NO_SUCH_SPACE")
       ELSE IF ~is_self /\ parent.is_view
       THEN Abort(p3, "ER_CREATE_FK_CONSTRAINT: referenced space can't be VIEW")
       ELSE IF parent_cols # <<>>
               /\ fk_column_count_differs(child_cols_count, Len(parent_cols))
       THEN Abort(p3, "ER_CREATE_FK_CONSTRAINT: number of columns")
       ELSE IF parent_cols = <<>> /\ ~is_self
               /\ fk_column_count_differs(child_cols_count,
                                          Len(parent.pk_parts))
       THEN Abort(p3, "ER_CREATE_FK_CONSTRAINT: number of columns")
       ELSE IF bad_link
       THEN Abort(p3, "ER_CREATE_FK_CONSTRAINT: unknown column")
       ELSE [p3 EXCEPT !.new_fkey[1].has_def = TRUE,
                       !.new_fkey[1].parent_name = parent_name,
                       !.new_fkey[1].parent_cols = parent_cols,
                       !.new_fkey[1].name = name,
                       !.new_fkey[1].field_count = child_cols_count,
                       !.new_fkey[1].child_id = 0,
                       !.new_fkey[1].parent_id =
                           IF found # {} THEN parent.id ELSE 0,
                       !.new_fkey[1].links = links]

(* ------------------------------------------------------------------ *)
(* Registers, the undo ledger and presence tests                        *)
(* ------------------------------------------------------------------ *)
Emit(p, ops) == [p EXCEPT !.aOp = @ \o ops]

WithP5(op, p5) == [op EXCEPT !.p5 = p5]

(* sqlGetVdbe: the program is created, with its OP_Init, on first use *)
sqlGetVdbe(p) ==
    IF p.aOp = <<>> THEN [p EXCEPT !.aOp = <<Op("Init", 0, 1, 0)>>] ELSE p

(* register returned by sqlGetTempRange(parser, n), n > 1 *)
TempRangeReg(p, n) == IF n <= p.nRangeReg THEN p.iRangeReg ELSE p.nMem + 1

sqlGetTempRange(p, n) ==
    IF n <= p.nRangeReg
    THEN [p EXCEPT !.iRangeReg = @ + n, !.nRangeReg = @ - n]
    ELSE [p EXCEPT !.nMem = @ + n]

sqlReleaseTempRange(p, iReg, n) ==
    IF n > p.nRangeReg
    THEN [p EXCEPT !.nRangeReg = n, !.iRangeReg = iReg]
    ELSE p

(* rlist_add_entry links the new record at the head of the list *)
save_record(p, space_id, reg_key, reg_key_count, insertion_opcode) ==
    [p EXCEPT !.record_list =
        <<[ space_id |-> space_id, reg_key |-> reg_key,
            reg_key_count |-> reg_key_count,
            insertion_opcode |-> insertion_opcode ]>> \o @]

(* a presence test that halts with the error whatever no_error says *)
vdbe_emit_halt_with_error_always(p, space_id, index_id, key_reg, key_len, error_code, no_error, cond_opcode) ==
    LET cursor == p.nTab
        label == nOp(p) + 1
    IN Emit([p EXCEPT !.nTab = @ + 1],
            << WithP5(Op4("IteratorOpen", cursor, index_id, 0,
                          VStr(<<space_id>>)), "OPFLAG_SYSTEMSP"),
               Op4(cond_opcode, cursor, label + 3, key_reg, VInt(key_len)),
               WithP5(Op4("Halt", SQL_TARANTOOL_ERROR, 0, 0,
                          VStr(<<error_code>>)), error_code),
               Op("Close", cursor, 0, 0) >>)

vdbe_emit_halt_with_presence_test(p, space_id, index_id, key_reg, key_len, error_code, no_error, cond_opcode) ==
    LET cursor == p.nTab
        label == nOp(p) + 1
    IN Emit([p EXCEPT !.nTab = @ + 1],
            << WithP5(Op4("IteratorOpen", cursor, index_id, 0,
                          VStr(<<space_id>>)), "OPFLAG_SYSTEMSP"),
               Op4(cond_opcode, cursor, label + 3, key_reg, VInt(key_len)),
               IF no_error
               THEN Op("Halt", SQL_OK, 0, 0)
               ELSE WithP5(Op4("Halt", SQL_TARANTOOL_ERROR, 0, 0,
                               VStr(<<error_code>>)), error_code),
               Op("Close", cursor, 0, 0) >>)

(* ------------------------------------------------------------------ *)
(* Emission of the catalog rows                                         *)
(* ------------------------------------------------------------------ *)
getNewSpaceId(p) ==
    AddOp([p EXCEPT !.nMem = @ + 1], Op("IncMaxid", p.nMem + 1, 0, 0))

vdbe_emit_space_create(p, space_id_reg, space_name_reg) ==
    LET iFirstCol == p.nMem + 1
        tuple_reg == iFirstCol + 7
        q == Emit([p EXCEPT !.nMem = tuple_reg],
               << Op("SCopy", space_id_reg, iFirstCol, 0),
                  Op("Integer", 1, iFirstCol + 1, 0),
                  Op("SCopy", space_name_reg, iFirstCol + 2, 0),
                  Op4("String8", 0, iFirstCol + 3, 0, VStr(<<"engine">>)),
                  Op("Integer", Len(p.fields), iFirstCol + 4, 0),
                  Op4("Blob", 0, iFirstCol + 5, 0, VBlob(<<"table_opts">>)),
                  Op4("Blob", 0, iFirstCol + 6, 0, VBlob(<<"table_format">>)),
                  Op("MakeRecord", iFirstCol, 7, tuple_reg),
                  WithP5(Op("SInsert", BOX_SPACE_ID, 0, tuple_reg),
                         "OPFLAG_NCHANGE") >>)
    IN save_record(q, BOX_SPACE_ID, iFirstCol, 1, nOp(q) - 1)

(* while a table is being created (create_table_def.new_space != NULL)
   space_id_reg is a register and index_id_reg the literal index id; for
   an existing table space_id_reg is the literal space id and
   index_id_reg a register *)
vdbe_emit_create_index(p, idx, space_id_reg, index_id_reg) ==
    LET entry_reg == p.nMem + 1
        tuple_reg == entry_reg + 6
        q == Emit([p EXCEPT !.nMem = tuple_reg],
               (IF p.new_space # "NULL"
                THEN << Op("SCopy", space_id_reg, entry_reg, 0),
                        Op("Integer", index_id_reg, entry_reg + 1, 0) >>
                ELSE << Op("Integer", space_id_reg, entry_reg, 0),
                        Op("SCopy", index_id_reg, entry_reg + 1, 0) >>)
               \o
               << Op4("String8", 0, entry_reg + 2, 0, VStr(idx.name)),
                  Op4("String8", 0, entry_reg + 3, 0, VStr(<<"tree">>)),
                  Op4("Blob", 0, entry_reg + 4, 0, VBlob(<<"index_opts">>)),
                  Op4("Blob", 0, entry_reg + 5, 0, VBlob(<<"index_parts">>)),
                  Op("MakeRecord", entry_reg, 6, tuple_reg),
                  Op("SInsert", BOX_INDEX_ID, 0, tuple_reg) >>)
    IN save_record(q, BOX_INDEX_ID, entry_reg, 2, nOp(q) - 1)

(* the index rows from the last slot to the first *)
RECURSIVE EmitIndexesBackFrom(_, _, _)
EmitIndexesBackFrom(p, i, space_id_reg) ==
    IF i > Len(p.index) THEN p
    ELSE EmitIndexesBackFrom(
             vdbe_emit_create_index(p, p.index[Len(p.index) + 1 - i],
                                    space_id_reg,
                                    p.index[Len(p.index) + 1 - i].iid),
             i + 1, space_id_reg)

RECURSIVE EmitIndexesFrom(_, _, _)
EmitIndexesFrom(p, i, space_id_reg) ==
    IF i > Len(p.index) THEN p
    ELSE EmitIndexesFrom(vdbe_emit_create_index(p, p.index[i], space_id_reg,
                                                p.index[i].iid),
                         i + 1, space_id_reg)

(* emitNewSysSequenceRecord: returns first_col = old nMem + 1 *)
emitNewSysSequenceRecord(p, reg_seq_id) ==
    LET first_col == p.nMem + 1
    IN Emit([p EXCEPT !.nMem = @ + 10],
            << Op("SCopy", reg_seq_id, first_col + 1, 0),
               Op("Integer", 1, first_col + 2, 0),
               Op4("String8", 0, first_col + 3, 0, VStr(<<p.new_space>>)),
               Op("Integer", 1, first_col + 4, 0),
               Op4("Int64", 0, first_col + 5, 0, VStr(<<"0">>)),
               Op4("Int64", 0, first_col + 6, 0, VStr(<<"LLONG_MAX">>)),
               Op("Integer", 1, first_col + 7, 0),
               Op("Integer", 0, first_col + 8, 0),
               Op("Bool", 0, first_col + 9, 0),
               Op("MakeRecord", first_col + 1, 9, first_col) >>)

emitNewSysSpaceSequenceRecord(p, reg_space_id, reg_seq_id, idx) ==
    LET first_col == p.nMem + 1
    IN Emit([p EXCEPT !.nMem = @ + 6],
            << Op("SCopy", reg_space_id, first_col + 1, 0),
               Op("IntCopy", reg_seq_id, first_col + 2, 0),
               Op("Bool", 1, first_col + 3, 0),
               Op("Integer", idx.parts[1].fieldno, first_col + 4, 0),
               Op4("String8", 0, first_col + 5, 0, VStr(<<>>)),
               Op("MakeRecord", first_col + 1, 5, first_col) >>)

(* the has_autoinc block of sqlEndTable *)
EmitSequence(p, reg_space_id) ==
    LET reg_seq_id == p.nMem + 1
        p1 == AddOp([p EXCEPT !.nMem = reg_seq_id],
                    Op("NextSequenceId", 0, reg_seq_id, 0))
        reg_seq_record == p1.nMem + 1
        p2 == AddOp(emitNewSysSequenceRecord(p1, reg_seq_id),
                    Op("SInsert", BOX_SEQUENCE_ID, 0, reg_seq_record))
        p3 == save_record(p2, BOX_SEQUENCE_ID, reg_seq_record + 1, 1,
                          nOp(p2) - 1)
        reg_space_seq_record == p3.nMem + 1
        p4 == AddOp(emitNewSysSpaceSequenceRecord(p3, reg_space_id,
                                                  reg_seq_id, p.index[1]),
                    Op("SInsert", BOX_SPACE_SEQUENCE_ID, 0,
                       reg_space_seq_record))
    IN save_record(p4, BOX_SPACE_SEQUENCE_ID, reg_space_seq_record + 1, 1,
                   nOp(p4) - 1)

vdbe_emit_ck_constraint_create(p, ck, reg_space_id) ==
    LET ck_constraint_reg == TempRangeReg(p, 6)
        p1 == Emit(sqlGetTempRange(p, 6),
                << Op("SCopy", reg_space_id, ck_constraint_reg, 0),
                   Op4("String8", 0, ck_constraint_reg + 1, 0, VStr(ck.name)),
                   Op("Bool", 0, ck_constraint_reg + 2, 0),
                   Op4("String8", 0, ck_constraint_reg + 3, 0,
                       VStr(<<ck.language>>)),
                   Op4("String8", 0, ck_constraint_reg + 4, 0,
                       VStr(ck.expr_str)),
                   Op("MakeRecord", ck_constraint_reg, 5,
                      ck_constraint_reg + 5) >>)
        p2 == vdbe_emit_halt_with_presence_test(p1, BOX_CK_CONSTRAINT_ID, 0,
                  ck_constraint_reg, 2, "ER_CONSTRAINT_EXISTS", FALSE,
                  "NoConflict")
        p3 == AddOp(p2, Op("SInsert", BOX_CK_CONSTRAINT_ID, 0,
                           ck_constraint_reg + 5))
        p4 == save_record(p3, BOX_CK_CONSTRAINT_ID, ck_constraint_reg, 2,
                          nOp(p3) - 1)
    IN sqlReleaseTempRange(p4, ck_constraint_reg, 5)

(* fk_constraint_is_self_referenced *)
fk_constraint_is_self_referenced(fk) == fk.child_id = fk.parent_id

(* the row of _fk_constraint up to its insert; in CREATE TABLE the child
   id is a register, in ALTER TABLE it is the id of the cached space *)
FkRowInsert(p, fk) ==
    LET constr_tuple_reg == TempRangeReg(p, 10)
        creating == p.new_space # "NULL"
        p0 == sqlGetVdbe(p)
        p1 == Emit(sqlGetTempRange(p0, 10),
                << Op4("String8", 0, constr_tuple_reg, 0, VStr(fk.name)),
                   IF creating
                   THEN Op("SCopy", fk.child_id, constr_tuple_reg + 1, 0)
                   ELSE Op("Integer", fk.child_id, constr_tuple_reg + 1, 0),
                   IF creating /\ fk_constraint_is_self_referenced(fk)
                   THEN Op("SCopy", fk.parent_id, constr_tuple_reg + 2, 0)
                   ELSE Op("Integer", fk.parent_id, constr_tuple_reg + 2, 0)
                >>)
        p2 == vdbe_emit_halt_with_presence_test(p1, BOX_FK_CONSTRAINT_ID, 0,
                  constr_tuple_reg, 2, "ER_CONSTRAINT_EXISTS", FALSE,
                  "NoConflict")
        p3 == Emit(p2,
                << Op("Bool", 0, constr_tuple_reg + 3, 0),
                   Op4("String8", 0, constr_tuple_reg + 4, 0,
                       VStr(<<"match">>)),
                   Op4("String8", 0, constr_tuple_reg + 5, 0,
                       VStr(<<"on_delete">>)),
                   Op4("String8", 0, constr_tuple_reg + 6, 0,
                       VStr(<<"on_update">>)),
                   Op4("Blob", 0, constr_tuple_reg + 7, 0,
                       VBlob(<<"child_links">>)),
                   Op4("Blob", 0, constr_tuple_reg + 8, 0,
                       VBlob(<<"parent_links">>)),
                   Op("MakeRecord", constr_tuple_reg, 9,
                      constr_tuple_reg + 9),
                   WithP5(Op("SInsert", BOX_FK_CONSTRAINT_ID, 0,
                             constr_tuple_reg + 9),
                          IF creating THEN "0" ELSE "OPFLAG_NCHANGE") >>)
    IN p3

(* an emitter that records the insert only while a table is created *)
vdbe_emit_fk_constraint_create_in_create_table(p, fk) ==
    LET constr_tuple_reg == TempRangeReg(p, 10)
        p3 == FkRowInsert(p, fk)
        p4 == IF p.new_space # "NULL"
              THEN save_record(p3, BOX_FK_CONSTRAINT_ID, constr_tuple_reg, 2,
                               nOp(p3) - 1)
              ELSE p3
    IN sqlReleaseTempRange(p4, constr_tuple_reg, 10)

vdbe_emit_fk_constraint_create(p, fk) ==
    LET constr_tuple_reg == TempRangeReg(p, 10)
        p3 == FkRowInsert(p, fk)
        p4 == save_record(p3, BOX_FK_CONSTRAINT_ID, constr_tuple_reg, 2,
                          nOp(p3) - 1)
    IN sqlReleaseTempRange(p4, constr_tuple_reg, 10)

(* sql_create_foreign_key for ALTER TABLE child_name ADD CONSTRAINT cname
   FOREIGN KEY (child_cols) REFERENCES parent_name [(parent_cols)]: no
   table is under construction (is_alter) *)
sql_alter_foreign_key(p, child_name, cname, parent_name, child_cols, parent_cols) ==
    LET child_found == space_by_name(child_name)
        child_space == CHOOSE sp \in child_found : TRUE
        found == space_by_name(parent_name)
        parent == CHOOSE sp \in found : TRUE
        child_cols_count == Len(child_cols)
        links == [i \in 1..child_cols_count |->
                     [ parent_field |->
                           IF parent_cols = <<>> THEN parent.pk_parts[i]
                           ELSE NameNo(parent.fields, parent_cols[i]),
                       child_field |->
                           NameNo(child_space.fields, child_cols[i]) ]]
        bad_link == \E i \in 1..child_cols_count :
                        \/ links[i].parent_field = -1
                        \/ links[i].child_field = -1
        fk_def == [FkParseZero EXCEPT
                      !.has_def = TRUE, !.name = cname,
                      !.parent_name = parent_name,
                      !.parent_cols = parent_cols,
                      !.field_count = child_cols_count,
                      !.child_id = child_space.id,
                      !.parent_id = parent.id,
                      !.links = links]
    IN IF child_found = {} THEN Abort(p, "ER_NO_SUCH_SPACE")
       ELSE IF found = {} THEN Abort(p, "ER_NO_SUCH_SPACE")
       ELSE IF parent.is_view
       THEN Abort(p, "ER_CREATE_FK_CONSTRAINT: referenced space can't be VIEW")
       ELSE IF parent_cols # <<>>
               /\ fk_column_count_differs(child_cols_count, Len(parent_cols))
       THEN Abort(p, "ER_CREATE_FK_CONSTRAINT: number of columns")
       ELSE IF parent_cols = <<>>
               /\ fk_column_count_differs(child_cols_count,
                                          Len(parent.pk_parts))
       THEN Abort(p, "ER_CREATE_FK_CONSTRAINT: number of columns")
       ELSE IF bad_link
       THEN Abort(p, "ER_CREATE_FK_CONSTRAINT: unknown column")
       ELSE vdbe_emit_fk_constraint_create(p, fk_def)

(* ------------------------------------------------------------------ *)
(* sqlEndTable                                                          *)
(* ------------------------------------------------------------------ *)
(* "Actualize conflict action for NOT NULL constraint" *)
ActualizeNullability(fields) ==
    [i \in 1..Len(fields) |->
        IF fields[i].nullable_action = ON_CONFLICT_ACTION_DEFAULT
        THEN [fields[i] EXCEPT !.nullable_action = ON_CONFLICT_ACTION_NONE,
                               !.is_nullable = TRUE]
        ELSE fields[i]]

(* The foreign-key loop of sqlEndTable from list entry i on.  The result
   says whether the function returned from inside the loop. *)
RECURSIVE EndTableFkFrom(_, _, _)
EndTableFkFrom(p, i, reg_space_id) ==
    IF i > Len(p.new_fkey) THEN [p |-> p, returned |-> FALSE]
    ELSE
    LET fk_parse == p.new_fkey[i]
        n == fk_parse.field_count
        cols == fk_parse.selfref_cols
        by_cols == cols # <<>>
        by_pk == cols = <<>> /\ fk_parse.is_self_referenced
        links == IF by_cols
                 THEN [k \in 1..n |->
                          [fk_parse.links[k] EXCEPT !.parent_field =
                               ColumnNo(p.fields, cols[k])]]
                 ELSE IF by_pk
                 THEN [k \in 1..n |->
                          [fk_parse.links[k] EXCEPT !.parent_field =
                               p.index[1].parts[k].fieldno]]
                 ELSE fk_parse.links
        fk_def == [fk_parse EXCEPT
                      !.links = links,
                      !.parent_id = IF by_cols \/ by_pk
                                    THEN reg_space_id ELSE @,
                      !.child_id = reg_space_id]
    IN IF ~fk_parse.has_def
       THEN [p |-> [p EXCEPT !.crashed = TRUE], returned |-> TRUE]
       ELSE IF by_cols /\ \E k \in 1..n : ColumnNo(p.fields, cols[k]) = -1
       THEN [p |-> Abort(p, "ER_CREATE_FK_CONSTRAINT: unknown column"),
             returned |-> TRUE]
       ELSE IF by_pk /\ fk_column_count_differs(n, Len(p.index[1].parts))
       THEN [p |-> Abort(p, "ER_CREATE_FK_CONSTRAINT: number of columns"),
             returned |-> TRUE]
       ELSE EndTableFkFrom(
                vdbe_emit_fk_constraint_create(
                    [p EXCEPT !.new_fkey[i] = fk_def], fk_def),
                i + 1, reg_space_id)

RECURSIVE EndTableCkFrom(_, _, _)
EndTableCkFrom(p, i, reg_space_id) ==
    IF i > Len(p.new_check) THEN p
    ELSE EndTableCkFrom(
             vdbe_emit_ck_constraint_create(p, p.new_check[i], reg_space_id),
             i + 1, reg_space_id)

sqlEndTable(p) ==
    IF p.new_space = "NULL" THEN p
    ELSE IF ~HasPrimaryKey(p)
    THEN Abort(p, "ER_CREATE_SPACE: PRIMARY KEY missing")
    ELSE
    LET name_reg == p.nMem + 1
        p1 == AddOp([p EXCEPT !.fields = ActualizeNullability(p.fields),
                              !.nMem = name_reg],
                    Op4("String8", 0, name_reg, 0, VStr(<<p.new_space>>)))
        p2 == vdbe_emit_halt_with_presence_test(p1, BOX_SPACE_ID, 2,
                  name_reg, 1, "ER_SPACE_EXISTS", p.if_not_exist,
                  "NoConflict")
        reg_space_id == p2.nMem + 1
        p3 == vdbe_emit_space_create(getNewSpaceId(p2), reg_space_id,
                                     name_reg)
        p4 == EmitIndexesFrom(p3, 1, reg_space_id)
        p5 == IF p.has_autoinc THEN EmitSequence(p4, reg_space_id) ELSE p4
        r == EndTableFkFrom(p5, 1, reg_space_id)
    IN IF r.returned THEN r.p
       ELSE EndTableCkFrom(r.p, 1, reg_space_id)

(* ------------------------------------------------------------------ *)
(* sql_finish_coding                                                    *)
(* ------------------------------------------------------------------ *)
(* the loop over the ledger with the jump of each insert aimed at the
   delete sequence of its own row *)
RECURSIVE CleanupFromOwnDelete(_, _)
CleanupFromOwnDelete(p, i) ==
    IF i > Len(p.record_list) THEN p
    ELSE LET record == p.record_list[i]
             record_reg == p.nMem + 1
             q == Emit([p EXCEPT !.nMem = record_reg],
                       << Op("MakeRecord", record.reg_key,
                             record.reg_key_count, record_reg),
                          Op("SDelete", record.space_id, record_reg, 0) >>)
         IN CleanupFromOwnDelete(ChangeP2(q, record.insertion_opcode, nOp(p)),
                                 i + 1)

(* the loop over the ledger without the patch of the jump of the insert *)
RECURSIVE CleanupFromUnpatched(_, _)
CleanupFromUnpatched(p, i) ==
    IF i > Len(p.record_list) THEN p
    ELSE LET record == p.record_list[i]
             record_reg == p.nMem + 1
         IN CleanupFromUnpatched(
                Emit([p EXCEPT !.nMem = record_reg],
                     << Op("MakeRecord", record.reg_key,
                           record.reg_key_count, record_reg),
                        Op("SDelete", record.space_id, record_reg, 0) >>),
                i + 1)

(* the rlist_foreach_entry loop over the records left in the ledger *)
RECURSIVE CleanupFrom(_, _)
CleanupFrom(p, i) ==
    IF i > Len(p.record_list) THEN p
    ELSE LET record == p.record_list[i]
             record_reg == p.nMem + 1
             q == Emit([p EXCEPT !.nMem = record_reg],
                       << Op("MakeRecord", record.reg_key,
                             record.reg_key_count, record_reg),
                          Op("SDelete", record.space_id, record_reg, 0) >>)
         IN CleanupFrom(ChangeP2(q, record.insertion_opcode, nOp(q)), i + 1)

(* a clean-up block with a delete for the most recent record too *)
EmitCleanupOfAll(p) ==
    IF p.record_list = <<>> THEN p
    ELSE AddOp(CleanupFrom(p, 1), Op("Halt", SQL_TARANTOOL_ERROR, 0, 0))

EmitCleanup(p) ==
    IF p.record_list = <<>> THEN p
    ELSE LET record == Head(p.record_list)
             p1 == ChangeP2([p EXCEPT !.record_list = Tail(@)],
                            record.insertion_opcode, nOp(p))
         IN AddOp(CleanupFrom(p1, 1), Op("Halt", SQL_TARANTOOL_ERROR, 0, 0))

(* sql_finish_coding without the test of is_aborted *)
sql_finish_coding_unchecked(p) ==
    LET p1 == EmitCleanup(AddOp(p, Op("Halt", SQL_OK, 0, 0)))
        last_instruction == nOp(p1)
        p2 == AddOp(p1, Op("TTransaction", 0, 0, 0))
    IN AddOp(ChangeP2(p2, 0, last_instruction), Op("Goto", 0, 1, 0))

(* a finalization that does not end the statement with OP_Halt *)
sql_finish_coding_no_halt(p) ==
    LET p1 == EmitCleanup(p)
        last_instruction == nOp(p1)
        p2 == IF p1.initiateTTrans
              THEN AddOp(p1, Op("TTransaction", 0, 0, 0)) ELSE p1
    IN IF p1.is_aborted THEN p1
       ELSE IF p1.initiateTTrans
       THEN AddOp(ChangeP2(p2, 0, last_instruction), Op("Goto", 0, 1, 0))
       ELSE p2

sql_finish_coding(p) ==
    LET p1 == EmitCleanup(AddOp(p, Op("Halt", SQL_OK, 0, 0)))
        last_instruction == nOp(p1)
        p2 == IF p1.initiateTTrans
              THEN AddOp(p1, Op("TTransaction", 0, 0, 0)) ELSE p1
    IN IF p1.is_aborted THEN p1
       ELSE IF p1.initiateTTrans
       THEN AddOp(ChangeP2(p2, 0, last_instruction), Op("Goto", 0, 1, 0))
       ELSE p2

(* ------------------------------------------------------------------ *)
(* CREATE VIEW                                                          *)
(* ------------------------------------------------------------------ *)
(* an alias list of any length is taken *)
AliasesNeverDiffer(select_fields, aliases) == FALSE

(* aliases != NULL && field_count != aliases->nExpr; the parser gives
   NULL, here <<>>, for a view without a column list *)
AliasesDiffer(select_fields, aliases) ==
    aliases # <<>> /\ Len(select_fields) # Len(aliases)

(* select_fields are the result columns sqlResultSetOfSelect gives for
   the SELECT of the view, <<>> when it fails; the space of the view is
   local to the function and create_table_def.new_space stays NULL *)
sql_create_view(p, name, if_not_exist, nVar, select_fields, aliases) ==
    IF nVar > 0
    THEN Abort(p, "ER_CREATE_SPACE: parameters are not allowed in views")
    ELSE
    LET p0 == [sqlStartTable(p, name) EXCEPT !.new_space = "NULL"]
        fields == IF aliases # <<>> THEN aliases ELSE select_fields
        name_reg == p0.nMem + 1
        p1 == AddOp([p0 EXCEPT !.nMem = name_reg, !.fields = fields],
                    Op4("String8", 0, name_reg, 0, VStr(<<name>>)))
        p2 == vdbe_emit_halt_with_presence_test(p1, BOX_SPACE_ID, 2,
                  name_reg, 1, "ER_SPACE_EXISTS", if_not_exist, "NoConflict")
        p3 == vdbe_emit_space_create(getNewSpaceId(p2), p2.nMem + 1,
                                     name_reg)
    IN IF select_fields = <<>> THEN Abort(p0, "ER_SQL_PARSER: select")
       ELSE IF AliasesDiffer(select_fields, aliases)
       THEN Abort(p0, "ER_CREATE_SPACE: number of aliases doesn't match provided columns")
       ELSE [p3 EXCEPT !.fields = <<>>]

(* ------------------------------------------------------------------ *)
(* DROP TABLE, DROP VIEW and DROP INDEX                                 *)
(* ------------------------------------------------------------------ *)
(* vdbe_code_drop_trigger: the delete of the trigger's row of _trigger *)
vdbe_code_drop_trigger(p, trigger_name) ==
    LET record_to_delete == p.nMem + 2
    IN Emit([p EXCEPT !.nMem = @ + 2],
            << Op4("String8", 0, p.nMem + 1, 0, VStr(<<trigger_name>>)),
               Op("MakeRecord", p.nMem + 1, 1, record_to_delete),
               Op("SDelete", BOX_TRIGGER_ID, record_to_delete, 0) >>)

vdbe_emit_fk_constraint_drop(p, constraint_name, child_id) ==
    LET key_reg == TempRangeReg(p, 3)
        p1 == Emit(sqlGetTempRange(p, 3),
                << Op4("String8", 0, key_reg, 0, VStr(<<constraint_name>>)),
                   Op("Integer", child_id, key_reg + 1, 0) >>)
        p2 == vdbe_emit_halt_with_presence_test(p1, BOX_FK_CONSTRAINT_ID, 0,
                  key_reg, 2, "ER_NO_SUCH_CONSTRAINT", FALSE, "Found")
        p3 == Emit(p2, << Op("MakeRecord", key_reg, 2, key_reg + 2),
                          Op("SDelete", BOX_FK_CONSTRAINT_ID, key_reg + 2,
                             0) >>)
    IN sqlReleaseTempRange(p3, key_reg, 3)

vdbe_emit_ck_constraint_drop(p, ck_name, space_id) ==
    LET key_reg == TempRangeReg(p, 3)
        p1 == Emit(sqlGetTempRange(p, 3),
                << Op("Integer", space_id, key_reg, 0),
                   Op4("String8", 0, key_reg + 1, 0, VStr(<<ck_name>>)) >>)
        p2 == vdbe_emit_halt_with_presence_test(p1, BOX_CK_CONSTRAINT_ID, 0,
                  key_reg, 2, "ER_NO_SUCH_CONSTRAINT", FALSE, "Found")
        p3 == Emit(p2, << Op("MakeRecord", key_reg, 2, key_reg + 2),
                          Op("SDelete", BOX_CK_CONSTRAINT_ID, key_reg + 2,
                             0) >>)
    IN sqlReleaseTempRange(p3, key_reg, 3)

RECURSIVE DropTriggersFrom(_, _, _)
DropTriggersFrom(p, triggers, i) ==
    IF i > Len(triggers) THEN p
    ELSE DropTriggersFrom(vdbe_code_drop_trigger(p, triggers[i]),
                          triggers, i + 1)

(* a drop of the sequence before the row that attaches it to the space *)
DropSequenceFirst(p, sequence_id, idx_rec_reg, space_id_reg) ==
    LET sequence_id_reg == p.nMem + 1
    IN Emit([p EXCEPT !.nMem = sequence_id_reg],
            << Op("Integer", sequence_id, sequence_id_reg, 0),
               Op("MakeRecord", sequence_id_reg, 1, idx_rec_reg),
               Op("SDelete", BOX_SEQUENCE_DATA_ID, idx_rec_reg, 0),
               Op("MakeRecord", sequence_id_reg, 1, idx_rec_reg),
               Op("SDelete", BOX_SEQUENCE_ID, idx_rec_reg, 0),
               Op("MakeRecord", space_id_reg, 1, idx_rec_reg),
               Op("SDelete", BOX_SPACE_SEQUENCE_ID, idx_rec_reg, 0) >>)

(* the "if (space->sequence != NULL)" block of sql_code_drop_table *)
DropSequence(p, sequence_id, idx_rec_reg, space_id_reg) ==
    LET sequence_id_reg == p.nMem + 1
    IN Emit([p EXCEPT !.nMem = sequence_id_reg],
            << Op("Integer", sequence_id, sequence_id_reg, 0),
               Op("MakeRecord", sequence_id_reg, 1, idx_rec_reg),
               Op("SDelete", BOX_SEQUENCE_DATA_ID, idx_rec_reg, 0),
               Op("MakeRecord", space_id_reg, 1, idx_rec_reg),
               Op("SDelete", BOX_SPACE_SEQUENCE_ID, idx_rec_reg, 0),
               Op("MakeRecord", sequence_id_reg, 1, idx_rec_reg),
               Op("SDelete", BOX_SEQUENCE_ID, idx_rec_reg, 0) >>)

RECURSIVE DropChildFkFrom(_, _, _)
DropChildFkFrom(p, space, i) ==
    IF i > Len(space.child_fk_constraint) THEN p
    ELSE DropChildFkFrom(
             vdbe_emit_fk_constraint_drop(p, space.child_fk_constraint[i].name,
                                          space.id),
             space, i + 1)

RECURSIVE DropCkFrom(_, _, _)
DropCkFrom(p, space, i) ==
    IF i > Len(space.ck_constraint) THEN p
    ELSE DropCkFrom(
             vdbe_emit_ck_constraint_drop(p, space.ck_constraint[i], space.id),
             space, i + 1)

(* the delete of the row of _index of index iid *)
DropIndexRow(p, iid, idx_rec_reg, space_id_reg, index_id_reg) ==
    Emit(p, << Op("Integer", iid, index_id_reg, 0),
               Op("MakeRecord", space_id_reg, 2, idx_rec_reg),
               Op("SDelete", BOX_INDEX_ID, idx_rec_reg, 0) >>)

(* the loop over space->index[1 .. index_count) *)
RECURSIVE DropSecondaryFrom(_, _, _, _, _, _)
DropSecondaryFrom(p, space, i, idx_rec_reg, space_id_reg, index_id_reg) ==
    IF i > Len(space.index) THEN p
    ELSE DropSecondaryFrom(
             DropIndexRow(p, space.index[i].iid, idx_rec_reg, space_id_reg,
                          index_id_reg),
             space, i + 1, idx_rec_reg, space_id_reg, index_id_reg)

sql_code_drop_table(p, space, is_view) ==
    LET p1 == DropTriggersFrom(p, space.sql_triggers, 1)
        idx_rec_reg == p1.nMem + 1
        space_id_reg == p1.nMem + 2
        index_id_reg == p1.nMem + 3
        p2 == Emit([p1 EXCEPT !.nMem = index_id_reg],
                << Op("Integer", space.id, space_id_reg, 0),
                   Op("CheckViewReferences", space_id_reg, 0, 0) >>)
        p3 == IF space.sequence # 0
              THEN DropSequence(p2, space.sequence, idx_rec_reg, space_id_reg)
              ELSE p2
        p4 == DropChildFkFrom(p3, space, 1)
        p5 == DropCkFrom(p4, space, 1)
        p6 == IF is_view THEN p5
              ELSE DropIndexRow(
                       DropSecondaryFrom(p5, space, 2, idx_rec_reg,
                                         space_id_reg, index_id_reg),
                       0, idx_rec_reg, space_id_reg, index_id_reg)
    IN Emit(p6, << Op("MakeRecord", space_id_reg, 1, idx_rec_reg),
                   Op("SDelete", BOX_TRUNCATE_ID, idx_rec_reg, 0),
                   Op("MakeRecord", space_id_reg, 1, idx_rec_reg),
                   WithP5(Op("SDelete", BOX_SPACE_ID, idx_rec_reg, 0),
                          "OPFLAG_NCHANGE") >>)

(* a test that lets every drop through *)
NoObjectDepends(space) == FALSE

(* the loop over space->parent_fk_constraint: a foreign key of another
   table references the space *)
OtherObjectsDepend(space) ==
    \E i \in 1..Len(space.parent_fk_constraint) :
        ~fk_constraint_is_self_referenced(space.parent_fk_constraint[i])

(* a DROP TABLE that ignores IF EXISTS *)
NoSuchSpaceIsError(p, if_exist) == Abort(p, "ER_NO_SUCH_SPACE")

(* the "if (space == NULL)" block of sql_drop_table *)
NoSuchSpace(p, if_exist) ==
    IF if_exist THEN p ELSE Abort(p, "ER_NO_SUCH_SPACE")

sql_drop_table(p, space_name, if_exist, is_view) ==
    LET p1 == sqlGetVdbe(p)
        found == space_by_name(space_name)
        space == CHOOSE sp \in found : TRUE
    IN IF p.is_aborted THEN [p1 EXCEPT !.crashed = TRUE]
       ELSE IF found = {}
       THEN NoSuchSpace(p1, if_exist)
       ELSE IF is_view /\ ~space.is_view
       THEN Abort(p1, "ER_DROP_SPACE: use DROP TABLE")
       ELSE IF ~is_view /\ space.is_view
       THEN Abort(p1, "ER_DROP_SPACE: use DROP VIEW")
       ELSE IF OtherObjectsDepend(space)
       THEN Abort(p1, "ER_DROP_SPACE: other objects depend on it")
       ELSE sql_code_drop_table(p1, space, is_view)

(* box_index_id_by_name: BOX_ID_NIL is -1 here *)
box_index_id_by_name(space, index_name) ==
    IF \E i \in 1..Len(space.index) : space.index[i].name = index_name
    THEN space.index[CHOOSE i \in 1..Len(space.index) :
                        space.index[i].name = index_name].iid
    ELSE -1

(* a DROP INDEX that is silent about a missing index *)
NoSuchIndexIsSilent(p, if_exists) == p

(* the "if (index_id == BOX_ID_NIL)" block of sql_drop_index *)
NoSuchIndex(p, if_exists) ==
    IF if_exists THEN p ELSE Abort(p, "ER_NO_SUCH_INDEX_NAME")

sql_drop_index(p, table_name, index_name, if_exists) ==
    LET p1 == sqlGetVdbe(p)
        found == space_by_name(table_name)
        space == CHOOSE sp \in found : TRUE
        index_id == box_index_id_by_name(space, index_name)
        record_reg == p1.nMem + 1
        space_id_reg == p1.nMem + 2
        index_id_reg == p1.nMem + 3
    IN IF p.is_aborted THEN [p1 EXCEPT !.crashed = TRUE]
       ELSE IF found = {}
       THEN (IF if_exists THEN p1 ELSE Abort(p1, "ER_NO_SUCH_SPACE"))
       ELSE IF index_id = -1
       THEN NoSuchIndex(p1, if_exists)
       ELSE Emit([p1 EXCEPT !.nMem = index_id_reg],
                 << Op("Integer", space.id, space_id_reg, 0),
                    Op("Integer", index_id, index_id_reg, 0),
                    Op("MakeRecord", space_id_reg, 2, record_reg),
                    WithP5(Op("SDelete", BOX_INDEX_ID, record_reg, 0),
                           "OPFLAG_NCHANGE") >>)

(* ------------------------------------------------------------------ *)
(* CREATE INDEX on an existing table                                    *)
(* ------------------------------------------------------------------ *)
BOX_INDEX_FIELD_ID == 1

(* sqlVdbeJumpHere(v, addr): P2 of the instruction at addr is the address
   of the next instruction to be added *)
JumpHere(p, addr) == ChangeP2(p, addr, nOp(p))

(* the result is the program and the addresses of the two jumps the
   caller resolves *)
vdbe_emit_space_index_search(p, space_id, _index_cursor) ==
    LET key_reg == p.nMem + 1
        p1 == AddOp([p EXCEPT !.nMem = key_reg],
                    Op("Integer", space_id, key_reg, 0))
        not_found1 == nOp(p1)
        p2 == AddOp(p1, Op4("SeekLE", _index_cursor, 0, key_reg, VInt(1)))
        not_found2 == nOp(p2)
        p3 == AddOp(p2, Op4("IdxLT", _index_cursor, 0, key_reg, VInt(1)))
        found_addr == nOp(p3)
        p4 == JumpHere(JumpHere(AddOp(p3, Op("Goto", 0, 0, 0)), not_found1),
                       not_found2)
    IN [p |-> AddOp(p4, Op("Goto", 0, 0, 0)), found_addr |-> found_addr,
        not_found_addr |-> nOp(p4)]

(* an index id that is one more than the index_id_max of the cache, the
   same value in every program compiled from that cache *)
vdbe_emit_cached_index_id(p, space_id, _index_cursor) ==
    AddOp([p EXCEPT !.nMem = @ + 1], Op("Integer", 4, p.nMem + 1, 0))

(* an emitter whose jump over the sentinel lands on the sentinel *)
vdbe_emit_new_sec_index_id_no_skip(p, space_id, _index_cursor) ==
    LET r == vdbe_emit_space_index_search(p, space_id, _index_cursor)
        iid_reg == r.p.nMem + 1
        p1 == Emit(JumpHere([r.p EXCEPT !.nMem = iid_reg], r.found_addr),
                << Op("Column", _index_cursor, BOX_INDEX_FIELD_ID, iid_reg),
                   Op("AddImm", iid_reg, 1, 0) >>)
        skip_bad_iid == nOp(p1)
        p2 == JumpHere(JumpHere(AddOp(p1, Op("Goto", 0, 0, 0)),
                                r.not_found_addr), skip_bad_iid)
    IN AddOp(p2, Op("Integer", 1, iid_reg, 0))

(* the register of the new index id is the nMem of the result *)
vdbe_emit_new_sec_index_id(p, space_id, _index_cursor) ==
    LET r == vdbe_emit_space_index_search(p, space_id, _index_cursor)
        iid_reg == r.p.nMem + 1
        p1 == Emit(JumpHere([r.p EXCEPT !.nMem = iid_reg], r.found_addr),
                << Op("Column", _index_cursor, BOX_INDEX_FIELD_ID, iid_reg),
                   Op("AddImm", iid_reg, 1, 0) >>)
        skip_bad_iid == nOp(p1)
        p2 == JumpHere(AddOp(p1, Op("Goto", 0, 0, 0)), r.not_found_addr)
    IN JumpHere(AddOp(p2, Op("Integer", 1, iid_reg, 0)), skip_bad_iid)

(* sql_space_index_by_name on the space of the cache *)
sql_space_index_by_name(space, name) ==
    {i \in 1..Len(space.index) : space.index[i].name = name}

(* sql_create_index for CREATE INDEX name ON tbl_name (a): tbl_name !=
   NULL, create_table_def.new_space == NULL and an index type that is
   not a constraint *)
sql_create_index_on(p, tbl_name, name, if_not_exist) ==
    LET p1 == sqlGetVdbe(p)
        found == space_by_name(tbl_name)
        space == CHOOSE sp \in found : TRUE
        cursor == p1.nTab
        p2 == AddOp([p1 EXCEPT !.nTab = @ + 1],
                    WithP5(Op4("IteratorOpen", cursor, 0, 0,
                               VStr(<<BOX_INDEX_ID>>)), "OPFLAG_SEEKEQ"))
        p3 == vdbe_emit_new_sec_index_id(p2, space.id, cursor)
        index_id == p3.nMem
        p4 == vdbe_emit_create_index(AddOp(p3, Op("Close", cursor, 0, 0)),
                                     [name |-> <<name>>], space.id, index_id)
        p5 == [p4 EXCEPT !.aOp[Len(p4.aOp)].p5 = "OPFLAG_NCHANGE"]
    IN IF p.is_aborted THEN p
       ELSE IF found = {}
       THEN (IF if_not_exist THEN p1 ELSE Abort(p1, "ER_NO_SUCH_SPACE"))
       ELSE IF space.is_view
       THEN Abort(p1, "ER_MODIFY_INDEX: views can not be indexed")
       ELSE IF sql_space_index_by_name(space, name) # {}
       THEN (IF if_not_exist THEN p1
             ELSE Abort(p1, "ER_INDEX_EXISTS_IN_SPACE"))
       ELSE AddOp(p5, Op("Expire", 0, 0, 0))

(* ------------------------------------------------------------------ *)
(* Execution of the program by the VDBE against the catalog             *)
(* ------------------------------------------------------------------ *)
VRec(t) == [k |-> "rec", n |-> 0, s |-> t]

(* number of leading tuple fields that form the primary key of a
   system space, as the ledger's reg_key_count records it *)
PrimaryKeyLen(space_id) ==
    IF space_id \in {BOX_SPACE_ID, BOX_SEQUENCE_ID, BOX_SPACE_SEQUENCE_ID}
    THEN 1 ELSE 2

(* key of a row in index index_id of its space: index 2 of _space is
   the name index (third field); index 0 is the primary key *)
IndexKey(space_id, index_id, tuple) ==
    IF space_id = BOX_SPACE_ID /\ index_id = 2
    THEN <<tuple[3]>>
    ELSE SubSeq(tuple, 1, PrimaryKeyLen(space_id))

RegRange(mem, first, count) == [i \in 1..count |-> mem[first + i - 1]]

Event(ev, addr, space_id, key) ==
    [ev |-> ev, addr |-> addr, space |-> space_id, key |-> key]

CurOp == parse.aOp[pc + 1]

Running == phase = "exec" /\ rc = "running"

(* Instructions that touch only registers, cursors or the program
   counter.  The machine runs them one after another; they are folded
   into the step of the catalog instruction that precedes them. *)
LoadOps == {"String8", "Integer", "Bool", "Int64", "Blob", "SCopy",
            "IntCopy", "NextSequenceId", "IncMaxid"}
JumpOps == {"Init", "Goto", "TTransaction"}
CursorOps == {"IteratorOpen", "Close"}
SilentOps == LoadOps \cup JumpOps \cup CursorOps \cup {"MakeRecord"}

(* the value a load instruction writes *)
RegisterValue(op, mem) ==
    CASE op.opcode = "String8" -> op.p4
      [] op.opcode = "Integer" -> VInt(op.p1)
      [] op.opcode = "Bool" -> VBool(op.p1 # 0)
      [] op.opcode \in {"Int64", "Blob"} -> op.p4
      [] op.opcode \in {"SCopy", "IntCopy"} -> mem[op.p1]
      [] op.opcode = "NextSequenceId" -> VId("new_sequence_id", 0)
      [] op.opcode = "IncMaxid" -> VId("new_space_id", 0)

(* the register a load instruction writes: P1 of OP_IncMaxid, P2 of the
   others *)
RegisterOut(op) == IF op.opcode = "IncMaxid" THEN op.p1 ELSE op.p2

MemAfter(op, mem) ==
    IF op.opcode \in LoadOps
    THEN [mem EXCEPT ![RegisterOut(op)] = RegisterValue(op, mem)]
    ELSE IF op.opcode = "MakeRecord"
    THEN [mem EXCEPT ![op.p3] = VRec(RegRange(mem, op.p1, op.p2))]
    ELSE mem

CsrAfter(op, cs) ==
    IF op.opcode = "IteratorOpen"
    THEN {c \in cs : c.id # op.p1}
         \cup {[id |-> op.p1, space |-> op.p4.s[1], index |-> op.p2]}
    ELSE IF op.opcode = "Close"
    THEN {c \in cs : c.id # op.p1}
    ELSE cs

PcAfter(op, addr) ==
    IF op.opcode = "Goto" \/ (op.opcode = "Init" /\ op.p2 # 0)
    THEN op.p2 ELSE addr + 1

(* machine state when the next catalog instruction is reached *)
RECURSIVE Advance(_, _, _)
Advance(addr, mem, cs) ==
    LET op == parse.aOp[addr + 1]
    IN IF op.opcode \in SilentOps
       THEN Advance(PcAfter(op, addr), MemAfter(op, mem), CsrAfter(op, cs))
       ELSE [pc |-> addr, aMem |-> mem, csr |-> cs]

Continue(addr) ==
    LET m == Advance(addr, aMem, csr)
    IN pc' = m.pc /\ aMem' = m.aMem /\ csr' = m.csr

(* OP_NoConflict: jump to P2 when no row of the cursor's index has the
   key r[P3 .. P3+P4-1], fall through when one has *)
KeyFound(c, key) ==
    \E row \in box : /\ row.space = c.space
                     /\ IndexKey(row.space, c.index, row.tuple) = key

ExecNoConflict ==
    /\ Running
    /\ CurOp.opcode = "NoConflict"
    /\ \E c \in csr :
          /\ c.id = CurOp.p1
          /\ Continue(IF KeyFound(c, RegRange(aMem, CurOp.p3, CurOp.p4.n))
                      THEN pc + 1 ELSE CurOp.p2)
    /\ UNCHANGED <<phase, parse, box, rc, trace, keyin, keyout>>

(* OP_SInsert: insert r[P3] into system space P1; on error go to P2.
   The insertion fails on a duplicate primary key and may fail for any
   other reason the storage engine has. *)
RowOf(space_id, tuple) == [space |-> space_id, tuple |-> tuple]

DuplicateKey(space_id, tuple) ==
    \E row \in box : /\ row.space = space_id
                     /\ IndexKey(space_id, 0, row.tuple)
                            = IndexKey(space_id, 0, tuple)

ExecSInsertOk ==
    /\ Running
    /\ CurOp.opcode = "SInsert"
    /\ ~DuplicateKey(CurOp.p1, aMem[CurOp.p3].s)
    /\ box' = box \cup {RowOf(CurOp.p1, aMem[CurOp.p3].s)}
    /\ trace' = Append(trace, Event("insert", pc, CurOp.p1,
                           IndexKey(CurOp.p1, 0, aMem[CurOp.p3].s)))
    /\ Continue(pc + 1)
    /\ UNCHANGED <<phase, parse, rc, keyin, keyout>>

ExecSInsertFail ==
    /\ Running
    /\ CurOp.opcode = "SInsert"
    /\ trace' = Append(trace, Event("insert_failed", pc, CurOp.p1,
                           IndexKey(CurOp.p1, 0, aMem[CurOp.p3].s)))
    /\ Continue(CurOp.p2)
    /\ UNCHANGED <<phase, parse, box, rc, keyin, keyout>>

(* OP_SDelete: delete from system space P1 the row with key r[P2] *)
ExecSDelete ==
    /\ Running
    /\ CurOp.opcode = "SDelete"
    /\ box' = {row \in box :
                  ~(/\ row.space = CurOp.p1
                    /\ IndexKey(row.space, 0, row.tuple) = aMem[CurOp.p2].s)}
    /\ trace' = Append(trace, Event("delete", pc, CurOp.p1, aMem[CurOp.p2].s))
    /\ Continue(pc + 1)
    /\ UNCHANGED <<phase, parse, rc, keyin, keyout>>

ExecHalt ==
    /\ Running
    /\ CurOp.opcode = "Halt"
    /\ rc' = IF CurOp.p1 = SQL_OK THEN "ok" ELSE "error"
    /\ trace' = Append(trace, Event(IF CurOp.p1 = SQL_OK
                                    THEN "halt" ELSE "halt_error",
                                    pc, "", <<>>))
    /\ phase' = "halted"
    /\ UNCHANGED <<parse, pc, aMem, box, csr, keyin, keyout>>

(* The catalog at the time the program starts: it may already hold a
   space with the name of the new table. *)
ExistingSpaceRow(name) ==
    RowOf(BOX_SPACE_ID, <<VId("old_space_id", 0), VInt(1), VStr(<<name>>)>>)

VdbeExecStart ==
    /\ phase = "ready"
    /\ \E exists \in BOOLEAN :
          box' = IF exists THEN {ExistingSpaceRow(parse.new_space)} ELSE {}
    /\ phase' = "exec"
    /\ rc' = "running"
    /\ LET m == Advance(0, [r \in 1..parse.nMem |-> VNull], {})
       IN pc' = m.pc /\ aMem' = m.aMem /\ csr' = m.csr
    /\ UNCHANGED <<parse, trace, keyin, keyout>>

(* ------------------------------------------------------------------ *)
(* The parser: what it feeds to the builders, and in which order        *)
(* ------------------------------------------------------------------ *)
Item(name, coll) == [name |-> name, coll |-> coll]

TableNames == {"t"}
Column(name, type) == [name |-> name, type |-> type]
Columns == {Column("a", FIELD_TYPE_INTEGER), Column("b", FIELD_TYPE_STRING)}
NullActions == {ON_CONFLICT_ACTION_NONE, ON_CONFLICT_ACTION_ABORT}
CollNames == {"unicode", "nosuch"}
ConstraintNames == {<<>>, <<"u">>, <<"unnamed_", "x">>, <<"x65000">>}
ColumnConstraintNames == {<<>>}
PrimaryKeyNames == {<<>>, <<"u">>}
KeyLists == { <<Item("a", "")>>, <<Item("b", "")>>,
              <<Item("a", ""), Item("b", "")>>,
              <<Item("b", "unicode")>> }

(* the statements whose programs are executed *)
RunColumns == {Column("a", FIELD_TYPE_INTEGER)}
RunConstraintNames == {<<>>, <<"u">>}
FkNames == {<<>>}
FkParents == {"p", "t", "nosuch"}
FkChildCols == {<<>>}
FkParentCols == {<<>>}
CkNames == {<<>>, <<"c">>}
CkExprs == {<<"a", ">", "0">>}

Parsing == ~parse.is_aborted /\ ~parse.crashed

NoExec == UNCHANGED <<pc, aMem, box, rc, csr, trace, keyin, keyout>>

(* create_table ::= createkw TABLE ifnotexists nm *)
StartTable(names, flags) ==
    /\ phase = "start"
    /\ \E name \in names, if_not_exist \in flags :
          parse' = [sqlStartTable(parse, name) EXCEPT
                        !.if_not_exist = if_not_exist,
                        !.initiateTTrans = TRUE]
    /\ phase' = "cols"
    /\ NoExec

(* columnname ::= nm typedef *)
AddColumn(columns) ==
    /\ phase = "cols" /\ Parsing
    /\ Len(parse.fields) < MaxCols
    /\ \E c \in columns :
          parse' = sqlAddColumn(parse, c.name, c.type)
    /\ UNCHANGED phase
    /\ NoExec

(* ccons ::= NULL onconf | NOT NULL onconf *)
NullableAction ==
    /\ phase = "cols" /\ Parsing
    /\ Len(parse.fields) >= 1
    /\ \E nullable_action \in NullActions :
          parse' = sql_column_add_nullable_action(parse, nullable_action)
    /\ UNCHANGED phase
    /\ NoExec

(* ccons ::= COLLATE id *)
CollateType ==
    /\ phase = "cols" /\ Parsing
    /\ Len(parse.fields) >= 1
    /\ \E coll_name \in CollNames :
          parse' = sqlAddCollateType(parse, coll_name)
    /\ UNCHANGED phase
    /\ NoExec

(* ccons ::= cconsname UNIQUE *)
UniqueColumn(cnames) ==
    /\ phase = "cols" /\ Parsing
    /\ Len(parse.fields) >= 1
    /\ Len(parse.index) < MaxIndexes
    /\ \E cname \in cnames :
          parse' = sql_create_index(parse, <<>>, cname,
                                    SQL_INDEX_TYPE_CONSTRAINT_UNIQUE)
    /\ UNCHANGED phase
    /\ NoExec

(* ccons ::= cconsname PRIMARY KEY sortorder autoinc *)
PrimaryKeyColumn(cnames) ==
    /\ phase = "cols" /\ Parsing
    /\ Len(parse.fields) >= 1
    /\ \E cname \in cnames, autoinc \in BOOLEAN :
          parse' = sqlAddPrimaryKey([parse EXCEPT !.has_autoinc = autoinc],
                                    <<>>, cname)
    /\ UNCHANGED phase
    /\ NoExec

(* tcons ::= cconsname UNIQUE LP sortlist RP *)
UniqueTable(cnames, lists) ==
    /\ phase \in {"cols", "tcons"} /\ Parsing
    /\ Len(parse.fields) >= 1
    /\ Len(parse.index) < MaxIndexes
    /\ \E cname \in cnames, col_list \in lists :
          parse' = sql_create_index(parse, col_list, cname,
                                    SQL_INDEX_TYPE_CONSTRAINT_UNIQUE)
    /\ phase' = "tcons"
    /\ NoExec

(* tcons ::= cconsname PRIMARY KEY LP sortlist autoinc RP *)
PrimaryKeyTable(cnames, lists) ==
    /\ phase \in {"cols", "tcons"} /\ Parsing
    /\ Len(parse.fields) >= 1
    /\ \E cname \in cnames, col_list \in lists :
          parse' = sqlAddPrimaryKey([parse EXCEPT !.has_autoinc = FALSE],
                                    col_list, cname)
    /\ phase' = "tcons"
    /\ NoExec

(* ccons / tcons ::= cconsname [FOREIGN KEY LP eidlist RP] REFERENCES nm
   eidlist_opt *)
AddForeignKey ==
    /\ phase \in {"cols", "tcons"} /\ Parsing
    /\ Len(parse.fields) >= 1
    /\ Len(parse.new_fkey) < MaxFk
    /\ \E cname \in FkNames, parent_name \in FkParents,
          child_cols \in FkChildCols, parent_cols \in FkParentCols :
          /\ child_cols = <<>> => phase = "cols"
          /\ parse' = sql_create_foreign_key(parse, cname, parent_name,
                                             child_cols, parent_cols)
          /\ phase' = IF child_cols = <<>> THEN phase ELSE "tcons"
    /\ NoExec

(* ccons / tcons ::= cconsname CHECK LP expr RP *)
AddCheck ==
    /\ phase \in {"cols", "tcons"} /\ Parsing
    /\ Len(parse.fields) >= 1
    /\ Len(parse.new_check) < MaxCk
    /\ \E cname \in CkNames, expr \in CkExprs :
          parse' = sql_create_check_contraint(parse, cname, expr)
    /\ UNCHANGED phase
    /\ NoExec

(* create_table_args ::= LP columnlist conslist_opt RP *)
EndTable ==
    /\ phase \in {"cols", "tcons"} /\ Parsing
    /\ Len(parse.fields) >= 1
    /\ parse' = sqlEndTable(parse)
    /\ phase' = "end"
    /\ NoExec

(* ecmd ::= explain cmdx SEMI *)
FinishCoding ==
    /\ phase = "end" /\ Parsing
    /\ parse' = sql_finish_coding(parse)
    /\ phase' = "ready"
    /\ NoExec

(* ------------------------------------------------------------------ *)
(* Specifications                                                       *)
(* ------------------------------------------------------------------ *)
Init ==
    /\ phase = "start"
    /\ parse = ParseInit
    /\ pc = 0
    /\ aMem = <<>>
    /\ box = {}
    /\ rc = "none"
    /\ csr = {}
    /\ trace = <<>>
    /\ keyin = <<>>
    /\ keyout = <<>>

(* compilation of the draft table of CREATE TABLE *)
Next ==
    \/ StartTable(TableNames, {FALSE})
    \/ AddColumn(Columns)
    \/ NullableAction
    \/ CollateType
    \/ UniqueColumn(ColumnConstraintNames)
    \/ PrimaryKeyColumn(ColumnConstraintNames)
    \/ UniqueTable(ConstraintNames, KeyLists)
    \/ PrimaryKeyTable(PrimaryKeyNames, KeyLists)
    \/ EndTable

Spec == Init /\ [][Next]_vars

(* compilation and execution of CREATE TABLE programs *)
NextRun ==
    \/ StartTable(TableNames, BOOLEAN)
    \/ AddColumn(RunColumns)
    \/ UniqueColumn(RunConstraintNames)
    \/ PrimaryKeyColumn(RunConstraintNames)
    \/ AddForeignKey
    \/ AddCheck
    \/ EndTable
    \/ FinishCoding
    \/ VdbeExecStart
    \/ ExecNoConflict
    \/ ExecSInsertOk
    \/ ExecSInsertFail
    \/ ExecSDelete
    \/ ExecHalt

SpecRun == Init /\ [][NextRun]_vars

(* the duplicate-removal loop of sql_create_index on its own *)
PartValues ==
    { [ fieldno |-> f, type |-> FIELD_TYPE_INTEGER,
        nullable_action |-> ON_CONFLICT_ACTION_DEFAULT, is_nullable |-> FALSE,
        coll_id |-> c, coll |-> CollOf(c) ] :
      f \in 0..2, c \in {COLL_NONE, "unicode"} }

RECURSIVE PartLists(_)
PartLists(n) ==
    IF n = 1 THEN {<<x>> : x \in PartValues}
    ELSE LET shorter == PartLists(n - 1)
         IN shorter \cup {Append(q, x) : q \in {l \in shorter : Len(l) = n - 1},
                                         x \in PartValues}

InitDedup ==
    /\ phase = "parts"
    /\ parse = ParseInit
    /\ pc = 0
    /\ aMem = <<>>
    /\ box = {}
    /\ rc = "none"
    /\ csr = {}
    /\ trace = <<>>
    /\ keyin \in PartLists(MaxKeyLen)
    /\ keyout = <<>>

RemoveRedundant ==
    /\ phase = "parts"
    /\ keyout' = RemoveRedundantParts(keyin)
    /\ phase' = "deduplicated"
    /\ UNCHANGED <<parse, pc, aMem, box, rc, csr, trace, keyin>>

NextDedup == RemoveRedundant

SpecDedup == InitDedup /\ [][NextDedup]_vars

(* CREATE TABLE statements with foreign keys of every shape: column and
   table constraints, named and unnamed, with and without parent
   columns, referencing the cached table p or the table being created.
   The statement may create a table named like the cached table p. *)
FkTableNames == {"t", "p"}
FkColumns == {Column("a", FIELD_TYPE_INTEGER), Column("b", FIELD_TYPE_INTEGER)}
FkKeyLists == { <<Item("a", "")>>, <<Item("a", ""), Item("b", "")>> }
FkConstraintNames == {<<>>, <<"f">>}
FkParentNames == {"p", "t"}
FkColumnLists ==
    { [child |-> <<>>,         parent |-> <<>>],
      [child |-> <<"a", "b">>, parent |-> <<>>],
      [child |-> <<"a">>,      parent |-> <<"x">>],
      [child |-> <<"a", "b">>, parent |-> <<"a">>],
      [child |-> <<"a", "b">>, parent |-> <<"b", "a">>] }

DeclareForeignKey(cnames, parents, lists) ==
    /\ phase \in {"cols", "tcons"} /\ Parsing
    /\ Len(parse.fields) >= 1
    /\ Len(parse.new_fkey) < MaxFkDecl
    /\ \E cname \in cnames, parent_name \in parents, l \in lists :
          /\ l.child = <<>> => phase = "cols"
          /\ parse' = sql_create_foreign_key(parse, cname, parent_name,
                                             l.child, l.parent)
          /\ phase' = IF l.child = <<>> THEN phase ELSE "tcons"
    /\ NoExec

NextFk ==
    \/ StartTable(FkTableNames, {FALSE})
    \/ AddColumn(FkColumns)
    \/ PrimaryKeyTable({<<>>}, FkKeyLists)
    \/ DeclareForeignKey(FkConstraintNames, FkParentNames, FkColumnLists)
    \/ AddCheck
    \/ EndTable

SpecFk == Init /\ [][NextFk]_vars

(* ------------------------------------------------------------------ *)
(* Compilation of one DDL statement: CREATE TABLE, CREATE VIEW, DROP    *)
(* TABLE, DROP VIEW or DROP INDEX                                       *)
(* ------------------------------------------------------------------ *)
DropNames == {"p", "c", "m", "s", "v", "nosuch"}
DropIndexNames == {"pk_c", "i1", "i3", "nosuch"}

(* cmd ::= DROP TABLE ifexists fullname | DROP VIEW ifexists fullname *)
DropTable ==
    /\ phase = "start"
    /\ \E space_name \in DropNames, if_exist \in BOOLEAN, is_view \in BOOLEAN :
          /\ parse' = sql_drop_table([parse EXCEPT !.initiateTTrans = TRUE],
                                     space_name, if_exist, is_view)
          /\ keyin' = <<"DROP TABLE", space_name, if_exist, is_view>>
    /\ phase' = "end"
    /\ UNCHANGED <<pc, aMem, box, rc, csr, trace, keyout>>

(* cmd ::= DROP INDEX ifexists nm ON fullname *)
DropIndex ==
    /\ phase = "start"
    /\ \E table_name \in DropNames, index_name \in DropIndexNames,
          if_exists \in BOOLEAN :
          /\ parse' = sql_drop_index([parse EXCEPT !.initiateTTrans = TRUE],
                                     table_name, index_name, if_exists)
          /\ keyin' = <<"DROP INDEX", table_name, index_name, if_exists>>
    /\ phase' = "end"
    /\ UNCHANGED <<pc, aMem, box, rc, csr, trace, keyout>>

AlterChildNames == {"c", "s", "nosuch"}
AlterParentNames == {"p", "m", "v", "nosuch"}
AlterChildCols == {<<"a">>, <<"a", "b">>, <<"z">>}
AlterParentCols == {<<>>, <<"x">>, <<"x", "y">>}

(* cmd ::= alter_table_start alter_add_constraint FOREIGN KEY LP eidlist RP
   REFERENCES nm eidlist_opt *)
AlterAddForeignKey ==
    /\ phase = "start"
    /\ \E child_name \in AlterChildNames, parent_name \in AlterParentNames,
          child_cols \in AlterChildCols, parent_cols \in AlterParentCols :
          /\ parse' = sql_alter_foreign_key(
                          [parse EXCEPT !.initiateTTrans = TRUE], child_name,
                          <<"f">>, parent_name, child_cols, parent_cols)
          /\ keyin' = <<"ADD CONSTRAINT", child_name, parent_name,
                        child_cols, parent_cols>>
    /\ phase' = "end"
    /\ UNCHANGED <<pc, aMem, box, rc, csr, trace, keyout>>

ViewColumns == {<<>>, <<"a">>, <<"a", "b">>}
MaxVar == 1

(* cmd ::= createkw VIEW ifnotexists nm eidlist_opt AS select *)
CreateView ==
    /\ phase = "start"
    /\ \E name \in TableNames, if_not_exist \in BOOLEAN, nVar \in 0..MaxVar,
          select_fields \in ViewColumns, aliases \in ViewColumns :
          /\ parse' = sql_create_view([parse EXCEPT !.initiateTTrans = TRUE],
                                      name, if_not_exist, nVar, select_fields,
                                      aliases)
          /\ keyin' = <<"CREATE VIEW", name, if_not_exist, nVar,
                        select_fields, aliases>>
    /\ phase' = "end"
    /\ UNCHANGED <<pc, aMem, box, rc, csr, trace, keyout>>

NextDdl ==
    \/ CreateView
    \/ StartTable(TableNames, BOOLEAN)
    \/ AddColumn(RunColumns)
    \/ UniqueColumn(RunConstraintNames)
    \/ PrimaryKeyColumn(RunConstraintNames)
    \/ AddForeignKey
    \/ AddCheck
    \/ EndTable
    \/ DropTable
    \/ DropIndex
    \/ AlterAddForeignKey
    \/ FinishCoding

SpecDdl == Init /\ [][NextDdl]_vars

(* ------------------------------------------------------------------ *)
(* Two sessions: each compiles CREATE INDEX name ON table (a) against   *)
(* the space cache, then the two programs run against the same _index,  *)
(* one instruction of one session at a time.  In this specification     *)
(* parse, pc, aMem, csr and rc hold one value per session; csr is the   *)
(* row the cursor of the session stands on, <<>> when on none; trace is *)
(* the log of the catalog instructions in the order they ran.           *)
(* ------------------------------------------------------------------ *)
Sessions == {1, 2}
IndexTables == {"c", "p"}
NewIndexNames == {"i1", "i4", "i5"}

(* the rows _index holds for the indexes of the space cache *)
CachedIndexRows ==
    {RowOf(BOX_INDEX_ID, <<VInt(sp.id), VInt(sp.index[i].iid),
                           VStr(<<sp.index[i].name>>)>>) :
        <<sp, i>> \in {<<sp, i>> \in CachedSpaces \X (1..3) :
                          i <= Len(sp.index)}}

(* cmd ::= createkw uniqueflag INDEX ifnotexists nm ON nm LP sortlist RP,
   once in each session *)
CreateIndexesOn(tables) ==
    /\ phase = "start"
    /\ \E stmt \in [Sessions -> tables \X NewIndexNames] :
          /\ parse' = [s \in Sessions |->
                LET q == sql_create_index_on(
                             [ParseInit EXCEPT !.initiateTTrans = TRUE],
                             stmt[s][1], stmt[s][2], FALSE)
                IN IF q.is_aborted THEN q ELSE sql_finish_coding(q)]
          /\ keyin' = stmt
    /\ phase' = "exec"
    /\ pc' = [s \in Sessions |-> 0]
    /\ aMem' = [s \in Sessions |-> [r \in 1..parse'[s].nMem |-> VNull]]
    /\ csr' = [s \in Sessions |-> <<>>]
    /\ rc' = [s \in Sessions |->
                 IF parse'[s].is_aborted THEN "error" ELSE "running"]
    /\ box' = CachedIndexRows
    /\ trace' = <<>>
    /\ UNCHANGED keyout

CreateIndexes == CreateIndexesOn(IndexTables)

OpOf(s) == parse[s].aOp[pc[s] + 1]

RunningIn(s) == phase = "exec" /\ rc[s] = "running"

LogEntry(s, ev, key) == [session |-> s, ev |-> ev, key |-> key]

(* an instruction that touches only the registers or the program
   counter of its session; OP_Init is logged as the start of the run *)
ExecLocal(s) ==
    /\ RunningIn(s)
    /\ OpOf(s).opcode \in SilentOps \cup {"Expire"}
    /\ pc' = [pc EXCEPT ![s] = PcAfter(OpOf(s), pc[s])]
    /\ aMem' = [aMem EXCEPT ![s] = MemAfter(OpOf(s), aMem[s])]
    /\ trace' = IF OpOf(s).opcode = "Init"
                THEN Append(trace, LogEntry(s, "start", <<>>)) ELSE trace
    /\ UNCHANGED <<phase, parse, box, rc, csr, keyin, keyout>>

(* the rows of _index with a space id of at most key *)
RowsUpTo(key) ==
    {row \in box : row.space = BOX_INDEX_ID /\ row.tuple[1].n <= key}

(* the last of them in the order of the primary key (space id, index id) *)
LastRow(rows) ==
    CHOOSE row \in rows : \A other \in rows :
        \/ other.tuple[1].n < row.tuple[1].n
        \/ /\ other.tuple[1].n = row.tuple[1].n
           /\ other.tuple[2].n <= row.tuple[2].n

(* OP_SeekLE: the cursor goes to the last row with a key of at most
   r[P3]; jump to P2 when there is none *)
ExecSeekLE(s) ==
    /\ RunningIn(s)
    /\ OpOf(s).opcode = "SeekLE"
    /\ LET rows == RowsUpTo(aMem[s][OpOf(s).p3].n)
       IN IF rows = {}
          THEN /\ pc' = [pc EXCEPT ![s] = OpOf(s).p2]
               /\ csr' = [csr EXCEPT ![s] = <<>>]
          ELSE /\ pc' = [pc EXCEPT ![s] = @ + 1]
               /\ csr' = [csr EXCEPT ![s] = LastRow(rows).tuple]
    /\ trace' = Append(trace, LogEntry(s, "seek", <<>>))
    /\ UNCHANGED <<phase, parse, aMem, box, rc, keyin, keyout>>

(* OP_IdxLT: jump to P2 when the key of the row under the cursor is less
   than r[P3] *)
ExecIdxLT(s) ==
    /\ RunningIn(s)
    /\ OpOf(s).opcode = "IdxLT"
    /\ pc' = [pc EXCEPT ![s] = IF csr[s][1].n < aMem[s][OpOf(s).p3].n
                               THEN OpOf(s).p2 ELSE @ + 1]
    /\ UNCHANGED <<phase, parse, aMem, box, rc, csr, trace, keyin, keyout>>

(* OP_Column: r[P3] = field P2 of the row under the cursor *)
ExecColumn(s) ==
    /\ RunningIn(s)
    /\ OpOf(s).opcode = "Column"
    /\ aMem' = [aMem EXCEPT ![s][OpOf(s).p3] = csr[s][OpOf(s).p2 + 1]]
    /\ pc' = [pc EXCEPT ![s] = @ + 1]
    /\ UNCHANGED <<phase, parse, box, rc, csr, trace, keyin, keyout>>

(* OP_AddImm: r[P1] = r[P1] + P2 *)
ExecAddImm(s) ==
    /\ RunningIn(s)
    /\ OpOf(s).opcode = "AddImm"
    /\ aMem' = [aMem EXCEPT ![s][OpOf(s).p1] = VInt(@.n + OpOf(s).p2)]
    /\ pc' = [pc EXCEPT ![s] = @ + 1]
    /\ UNCHANGED <<phase, parse, box, rc, csr, trace, keyin, keyout>>

(* the row (space id, index id, name) the insert of the session is for *)
IndexRowKey(s) ==
    <<aMem[s][OpOf(s).p3].s[1].n, aMem[s][OpOf(s).p3].s[2].n,
      aMem[s][OpOf(s).p3].s[3].s>>

(* _index is unique on (space id, index id) and on (space id, name) *)
IndexRowClash(tuple) ==
    \E row \in box :
        /\ row.space = BOX_INDEX_ID
        /\ row.tuple[1] = tuple[1]
        /\ row.tuple[2] = tuple[2] \/ row.tuple[3] = tuple[3]

(* "can not add a secondary key before primary": the row of an index
   with an id other than 0 is refused while the space has no row of
   index 0 *)
SecondaryBeforePrimary(tuple) ==
    /\ tuple[2].n # 0
    /\ ~\E row \in box :
          /\ row.space = BOX_INDEX_ID
          /\ row.tuple[1] = tuple[1]
          /\ row.tuple[2].n = 0

(* OP_SInsert on _index: on error go to P2 *)
ExecIndexInsert(s) ==
    /\ RunningIn(s)
    /\ OpOf(s).opcode = "SInsert"
    /\ IF \/ IndexRowClash(aMem[s][OpOf(s).p3].s)
          \/ SecondaryBeforePrimary(aMem[s][OpOf(s).p3].s)
       THEN /\ pc' = [pc EXCEPT ![s] = OpOf(s).p2]
            /\ trace' = Append(trace, LogEntry(s, "insert_failed",
                                               IndexRowKey(s)))
            /\ UNCHANGED box
       ELSE /\ pc' = [pc EXCEPT ![s] = @ + 1]
            /\ trace' = Append(trace, LogEntry(s, "insert", IndexRowKey(s)))
            /\ box' = box \cup {RowOf(BOX_INDEX_ID,
                                      SubSeq(aMem[s][OpOf(s).p3].s, 1, 3))}
    /\ UNCHANGED <<phase, parse, aMem, rc, csr, keyin, keyout>>

ExecHaltIn(s) ==
    /\ RunningIn(s)
    /\ OpOf(s).opcode = "Halt"
    /\ rc' = [rc EXCEPT ![s] = IF OpOf(s).p1 = SQL_OK THEN "ok" ELSE "error"]
    /\ UNCHANGED <<phase, parse, pc, aMem, box, csr, trace, keyin, keyout>>

NextIdx ==
    \/ CreateIndexes
    \/ \E s \in Sessions : ExecLocal(s)
    \/ \E s \in Sessions : ExecSeekLE(s)
    \/ \E s \in Sessions : ExecIdxLT(s)
    \/ \E s \in Sessions : ExecColumn(s)
    \/ \E s \in Sessions : ExecAddImm(s)
    \/ \E s \in Sessions : ExecIndexInsert(s)
    \/ \E s \in Sessions : ExecHaltIn(s)

SpecIdx == Init /\ [][NextIdx]_vars

(* The same two sessions; the statements may also name a space that has
   no row in _index. *)
SeekTables == {"c", "p", "e", "n"}

CreateIndexesAnywhere == CreateIndexesOn(SeekTables)

NextSeek ==
    \/ CreateIndexesAnywhere
    \/ \E s \in Sessions : ExecLocal(s)
    \/ \E s \in Sessions : ExecSeekLE(s)
    \/ \E s \in Sessions : ExecIdxLT(s)
    \/ \E s \in Sessions : ExecColumn(s)
    \/ \E s \in Sessions : ExecAddImm(s)
    \/ \E s \in Sessions : ExecIndexInsert(s)
    \/ \E s \in Sessions : ExecHaltIn(s)

SpecSeek == Init /\ [][NextSeek]_vars

(* ------------------------------------------------------------------ *)
(* A CHECK clause of CREATE TABLE t(a INTEGER ...) over every short     *)
(* source text                                                          *)
(* ------------------------------------------------------------------ *)
TrimAlphabet == {" ", "\t", "a", "'", "\""}

Texts(n) == UNION {[1..k -> TrimAlphabet] : k \in 0..n}

(* two spaces, a, two spaces, =, two spaces, 'x   y', two spaces *)
SpacedComparison ==
    <<" ", " ", "a", " ", " ", "=", " ", " ",
      "'", "x", " ", " ", " ", "y", "'", " ", " ">>

CheckSources == Texts(MaxExprLen) \cup {SpacedComparison}

InitTrim ==
    /\ phase = "source"
    /\ parse = sqlAddColumn(sqlStartTable(ParseInit, "t"), "a",
                            FIELD_TYPE_INTEGER)
    /\ pc = 0
    /\ aMem = <<>>
    /\ box = {}
    /\ rc = "none"
    /\ csr = {}
    /\ trace = <<>>
    /\ keyin \in CheckSources
    /\ keyout = <<>>

CheckClause ==
    /\ phase = "source"
    /\ parse' = sql_create_check_contraint(parse, <<>>, keyin)
    /\ phase' = "normalized"
    /\ UNCHANGED <<pc, aMem, box, rc, csr, trace, keyin, keyout>>

NextTrim == CheckClause

SpecTrim == InitTrim /\ [][NextTrim]_vars

(* ------------------------------------------------------------------ *)
(* Properties of executed CREATE TABLE programs                         *)
(* ------------------------------------------------------------------ *)
Halted == phase = "halted"

(* positions of the trace at which a recorded insert failed *)
FailedAt == {i \in 1..Len(trace) : trace[i].ev = "insert_failed"}

EventsOf(ev) == {i \in 1..Len(trace) : trace[i].ev = ev}

(* the row a successful insert event put into the catalog is there *)
RowPresent(e) ==
    \E row \in box : /\ row.space = e.space
                     /\ IndexKey(row.space, 0, row.tuple) = e.key

(* C1: when the program has halted after insert rk failed, the run ended
   with an error, none of the rows r1..r(k-1) inserted before the failure
   is left in the catalog, and every delete that was executed removed the
   row of one of those earlier inserts (none for rk or a later insert). *)
C1_EarlierRowsRetracted ==
    Halted =>
        \A f \in FailedAt :
            /\ rc = "error"
            /\ \A i \in 1..(f - 1) :
                   trace[i].ev = "insert" => ~RowPresent(trace[i])
            /\ \A d \in EventsOf("delete") :
                   \E i \in 1..(f - 1) :
                       /\ trace[i].ev = "insert"
                       /\ trace[i].space = trace[d].space
                       /\ trace[i].key = trace[d].key

(* the inserts that succeeded before the failure at position f *)
InsertsBefore(f) == {i \in 1..(f - 1) : trace[i].ev = "insert"}

(* the failed insert is a dependent one: the table row went in first *)
DependentFailure(f) ==
    /\ trace[f].space # BOX_SPACE_ID
    /\ \E i \in InsertsBefore(f) : trace[i].space = BOX_SPACE_ID

(* the events after position f are exactly n deletes and one final
   halt-with-error *)
EndsWithDeletes(f, n) ==
    /\ Len(trace) = f + n + 1
    /\ \A i \in (f + 1)..(f + n) : trace[i].ev = "delete"
    /\ trace[Len(trace)].ev = "halt_error"

(* C2 as stated: a failure at dependent insertion j, that is after the
   table row and j-1 dependent rows were inserted, is followed by
   exactly j-1 deletes and one halt-with-error. *)
C2_OneDeleteLess ==
    Halted =>
        \A f \in FailedAt :
            DependentFailure(f) =>
                EndsWithDeletes(f, Cardinality(InsertsBefore(f)) - 1)

(* C2 amended: a failure at dependent insertion j is followed by exactly
   j deletes, one for each of the j-1 dependent rows inserted before it
   and one for the table row, issued against the spaces of those inserts
   in reverse order, none for insertion j or later, and then by exactly
   one halt-with-error. *)
C2_DeletesForAllEarlierRows ==
    Halted =>
        \A f \in FailedAt :
            DependentFailure(f) =>
                /\ Cardinality(InsertsBefore(f)) = f - 1
                /\ EndsWithDeletes(f, f - 1)
                /\ \A m \in 1..(f - 1) :
                       trace[f + m].space = trace[f - m].space
                /\ Cardinality(EventsOf("halt_error")) = 1

(* a run in which the third dependent insert failed *)
C2_Witness ==
    /\ Halted
    /\ \E f \in FailedAt : DependentFailure(f) /\ f = 4
    /\ Cardinality(EventsOf("delete")) = 3

(* the OP_Halt that ended the run is the one of a constraint-name
   presence test *)
ConstraintExistsHalt ==
    /\ Halted
    /\ CurOp.opcode = "Halt"
    /\ CurOp.p5 = "ER_CONSTRAINT_EXISTS"

(* C3: when a constraint-name presence test ends the run, the rows
   inserted earlier by the same program have been deleted: none of them
   is left in the catalog. *)
C3_PresenceFailureRetracts ==
    ConstraintExistsHalt =>
        \A i \in EventsOf("insert") : ~RowPresent(trace[i])

(* ------------------------------------------------------------------ *)
(* Properties of the draft table                                        *)
(* ------------------------------------------------------------------ *)
Declaring == phase \in {"cols", "tcons"} /\ Parsing /\ Len(parse.fields) >= 1

(* the column lists the parser can hand over in the current phase: a
   column constraint (<<>>) only while columns are being declared *)
DeclLists == KeyLists \cup (IF phase = "cols" THEN {<<>>} ELSE {})

ListOrLastColumn(p, col_list) ==
    IF col_list = <<>>
    THEN <<Item(p.fields[Len(p.fields)].name, "")>>
    ELSE col_list

(* the key parts a constraint declared now over col_list stands for *)
DeclaredParts(p, col_list) ==
    LET cols == ListOrLastColumn(p, col_list)
    IN RemoveRedundantParts([i \in 1..Len(cols) |-> KeyPartOf(p, cols[i])])

Resolvable(p, col_list) == ~IndexFillFails(p, ListOrLastColumn(p, col_list))

(* identical ordered lists of columns and collations *)
SameColumnsAndCollations(a, b) ==
    /\ Len(a) = Len(b)
    /\ \A k \in 1..Len(a) :
          /\ a[k].fieldno = b[k].fieldno
          /\ a[k].coll_id = b[k].coll_id

NoPrimaryKeyDeclared(p) == \A i \in 1..Len(p.index) : p.index[i].iid # 0

HasSInsert(p) == \E a \in 1..Len(p.aOp) : p.aOp[a].opcode = "SInsert"

(* C4: when sqlEndTable has run on a draft table with at least one column
   and no primary key, the statement is aborted with the missing-primary-
   key error, the program holds no catalog insert and the ledger is
   empty. *)
C4_MissingPrimaryKey ==
    (phase = "end" /\ Len(parse.fields) >= 1 /\ NoPrimaryKeyDeclared(parse)) =>
        /\ parse.is_aborted
        /\ parse.diag = "ER_CREATE_SPACE: PRIMARY KEY missing"
        /\ ~HasSInsert(parse)
        /\ parse.record_list = <<>>

(* sqlEndTable refused a table that has two unique indexes and no
   primary key *)
C4_Witness ==
    /\ phase = "end"
    /\ Len(parse.fields) = 2
    /\ Len(parse.index) = 2
    /\ NoPrimaryKeyDeclared(parse)
    /\ parse.is_aborted

(* C5: an attached index with iid 0 is in slot 0 of the index array
   (slot 1 of the sequence). *)
C5_PrimaryKeyFirst ==
    \A i \in 1..Len(parse.index) : parse.index[i].iid = 0 => i = 1

(* C6: an unnamed PRIMARY KEY declared over the columns and collations of
   an attached unnamed UNIQUE index attaches nothing and makes that index
   the primary key; an unnamed UNIQUE declared over the columns and
   collations of an unnamed primary key attaches nothing. *)
C6_UnnamedPairMerged ==
    Declaring =>
        \A col_list \in DeclLists, i \in 1..Len(parse.index) :
            ( /\ Resolvable(parse, col_list)
              /\ parse.index[i].constraint_name = <<>>
              /\ SameColumnsAndCollations(DeclaredParts(parse, col_list),
                                          parse.index[i].parts) )
            => /\ (parse.index[i].iid # 0 /\ NoPrimaryKeyDeclared(parse)) =>
                      LET q == sqlAddPrimaryKey(
                                   [parse EXCEPT !.has_autoinc = FALSE],
                                   col_list, <<>>)
                      IN /\ Len(q.index) = Len(parse.index)
                         /\ q.index[i].iid = 0
               /\ parse.index[i].iid = 0 =>
                      LET q == sql_create_index(parse, col_list, <<>>,
                                   SQL_INDEX_TYPE_CONSTRAINT_UNIQUE)
                      IN q.index = parse.index

(* C7: when a UNIQUE and a PRIMARY KEY are declared over the same columns
   and collations and one of the two has a user-given name, the second
   declaration attaches an index of its own, whichever comes first. *)
C7_NamedPairNotMerged ==
    Declaring =>
        \A col_list \in DeclLists, i \in 1..Len(parse.index),
           cname \in ConstraintNames :
            ( /\ Resolvable(parse, col_list)
              /\ cname # <<>> \/ parse.index[i].constraint_name # <<>>
              /\ SameColumnsAndCollations(DeclaredParts(parse, col_list),
                                          parse.index[i].parts) )
            => /\ (parse.index[i].iid # 0 /\ NoPrimaryKeyDeclared(parse)) =>
                      Len(sqlAddPrimaryKey(
                              [parse EXCEPT !.has_autoinc = FALSE],
                              col_list, cname).index)
                          = Len(parse.index) + 1
               /\ parse.index[i].iid = 0 =>
                      Len(sql_create_index(parse, col_list, cname,
                              SQL_INDEX_TYPE_CONSTRAINT_UNIQUE).index)
                          = Len(parse.index) + 1

(* C9: on a column that has a nullability action, declaring that action
   again changes nothing and is accepted; declaring another one aborts
   the statement with the error of a repeated NULL declaration and leaves
   the column as it was. *)
C9_NullabilityTwice ==
    (phase = "cols" /\ Parsing /\ Len(parse.fields) >= 1) =>
        LET field == parse.fields[Len(parse.fields)]
        IN field.nullable_action # ON_CONFLICT_ACTION_DEFAULT =>
               \A a \in NullActions \cup {ON_CONFLICT_ACTION_FAIL} :
                   LET q == sql_column_add_nullable_action(parse, a)
                   IN IF a = field.nullable_action
                      THEN q = parse
                      ELSE /\ q.is_aborted
                           /\ q.diag =
                                "ER_SQL: NULL declaration has been already set"
                           /\ q.fields = parse.fields

(* a second, different declaration was refused and NULL stayed *)
C9_Witness ==
    /\ parse.is_aborted
    /\ parse.diag = "ER_SQL: NULL declaration has been already set"
    /\ parse.fields[Len(parse.fields)].nullable_action
           = ON_CONFLICT_ACTION_NONE
    /\ parse.fields[Len(parse.fields)].is_nullable

PrimaryKeyFieldsNotNull(p) ==
    /\ HasPrimaryKey(p)
    /\ \A k \in 1..Len(p.index[1].parts) :
          LET field == p.fields[p.index[1].parts[k].fieldno + 1]
          IN /\ field.nullable_action = ON_CONFLICT_ACTION_ABORT
             /\ ~field.is_nullable

(* C10: a sqlAddPrimaryKey call that returns without the aborted flag
   leaves a primary key all of whose fields have the action ABORT and are
   not nullable. *)
C10_PrimaryKeyNotNull ==
    Declaring =>
        \A col_list \in DeclLists, cname \in ConstraintNames,
           autoinc \in BOOLEAN :
            LET q == sqlAddPrimaryKey([parse EXCEPT !.has_autoinc = autoinc],
                                      col_list, cname)
            IN (~q.is_aborted /\ ~q.crashed) => PrimaryKeyFieldsNotNull(q)

(* a two-column primary key was accepted and both of its fields are
   NOT NULL *)
C10_Witness ==
    /\ Parsing
    /\ HasPrimaryKey(parse)
    /\ Len(parse.index[1].parts) = 2
    /\ PrimaryKeyFieldsNotNull(parse)

(* ------------------------------------------------------------------ *)
(* Properties of the duplicate-removal loop                             *)
(* ------------------------------------------------------------------ *)
(* positions of the list that hold the first occurrence of their field *)
FirstPositions(l) ==
    {i \in 1..Len(l) : \A j \in 1..(i - 1) : l[j].fieldno # l[i].fieldno}

NthOf(S, k) == CHOOSE i \in S : Cardinality({j \in S : j < i}) = k - 1

FirstOccurrences(l) ==
    [k \in 1..Cardinality(FirstPositions(l)) |-> l[NthOf(FirstPositions(l), k)]]

FieldNos(l) == [k \in 1..Len(l) |-> l[k].fieldno]

(* C8: the key parts left by the loop are the parts at the first
   occurrence of each field, in the order of the list. *)
C8_FirstOccurrenceOrder ==
    phase = "deduplicated" => keyout = FirstOccurrences(keyin)

(* PRIMARY KEY(b,a,b,c,a) with a, b, c the fields 0, 1, 2 *)
C8_Witness ==
    /\ phase = "deduplicated"
    /\ FieldNos(keyin) = <<1, 0, 1, 2, 0>>
    /\ FieldNos(keyout) = <<1, 0, 2>>

(* ------------------------------------------------------------------ *)
(* Properties of the primary key declaration                            *)
(* ------------------------------------------------------------------ *)
(* the instructions of the program that insert into _index *)
IndexInserts(p) ==
    {a \in 1..Len(p.aOp) :
        p.aOp[a].opcode = "SInsert" /\ p.aOp[a].p1 = BOX_INDEX_ID}

(* the key declared over col_list is one column of type INTEGER *)
SingleIntegerKey(p, col_list) ==
    LET parts == DeclaredParts(p, col_list)
    IN /\ Len(parts) = 1
       /\ p.fields[parts[1].fieldno + 1].type = FIELD_TYPE_INTEGER

(* C11: an accepted PRIMARY KEY over a single INTEGER column attaches no
   index and sqlEndTable emits no _index insert for it; an accepted
   PRIMARY KEY of any other shape leaves an index with iid 0 over the
   declared columns and sqlEndTable emits one _index insert per attached
   index. *)
C11_IntegerPrimaryKeyNoIndex ==
    Declaring =>
        \A col_list \in DeclLists, cname \in PrimaryKeyNames :
            LET q == sqlAddPrimaryKey(parse, col_list, cname)
                e == sqlEndTable(q)
            IN (Resolvable(parse, col_list) /\ ~q.is_aborted /\ ~q.crashed) =>
                   IF SingleIntegerKey(parse, col_list)
                   THEN /\ q.index = parse.index
                        /\ Cardinality(IndexInserts(e)) <= Len(parse.index)
                   ELSE /\ \E i \in 1..Len(q.index) :
                              /\ q.index[i].iid = 0
                              /\ SameColumnsAndCollations(
                                     q.index[i].parts,
                                     DeclaredParts(parse, col_list))
                        /\ Cardinality(IndexInserts(e)) = Len(q.index)

(* the slots of the attached indexes whose iid is 0 *)
PrimaryKeySlots(p) == {i \in 1..Len(p.index) : p.index[i].iid = 0}

(* C12: no two attached indexes have iid 0, and a PRIMARY KEY declared
   on a draft table that already has a primary key sets the aborted flag
   with the already-declared error and leaves the attached indexes as
   they were. *)
C12_AtMostOnePrimaryKey ==
    /\ Cardinality(PrimaryKeySlots(parse)) <= 1
    /\ (Declaring /\ PrimaryKeySlots(parse) # {}) =>
           \A col_list \in DeclLists, cname \in PrimaryKeyNames,
              autoinc \in BOOLEAN :
               LET q == sqlAddPrimaryKey(
                            [parse EXCEPT !.has_autoinc = autoinc],
                            col_list, cname)
               IN /\ q.is_aborted
                  /\ q.diag = "ER_CREATE_SPACE: primary key has been already declared"
                  /\ q.index = parse.index
                  /\ q.fields = parse.fields

(* a second PRIMARY KEY was declared and refused: the table keeps the
   one primary key it had *)
C12_Witness ==
    /\ parse.is_aborted
    /\ parse.diag = "ER_CREATE_SPACE: primary key has been already declared"
    /\ Cardinality(PrimaryKeySlots(parse)) = 1
    /\ Len(parse.index) = 2

(* ------------------------------------------------------------------ *)
(* Properties of the column list                                        *)
(* ------------------------------------------------------------------ *)
ColumnNames == {c.name : c \in Columns}
ColumnTypes == {c.type : c \in Columns}

(* C13: the column names of the draft table are pairwise distinct, and
   sqlAddColumn called with the name of an existing column sets the
   aborted flag with the duplicate-field error and leaves the columns,
   and so their count, as they were. *)
C13_DistinctColumnNames ==
    /\ \A i, j \in 1..Len(parse.fields) :
           i # j => parse.fields[i].name # parse.fields[j].name
    /\ (phase = "cols" /\ Parsing) =>
           \A name \in ColumnNames, type \in ColumnTypes :
               LET q == sqlAddColumn(parse, name, type)
               IN IF \E i \in 1..Len(parse.fields) :
                         parse.fields[i].name = name
                  THEN /\ q.is_aborted
                       /\ q.diag = "ER_SPACE_FIELD_IS_DUPLICATE"
                       /\ q.fields = parse.fields
                  ELSE /\ ~q.is_aborted
                       /\ Len(q.fields) = Len(parse.fields) + 1
                       /\ q.fields[Len(q.fields)].name = name

(* a column with the name of an existing column was refused *)
C13_Witness ==
    /\ parse.is_aborted
    /\ parse.diag = "ER_SPACE_FIELD_IS_DUPLICATE"
    /\ Len(parse.fields) = 1

(* ------------------------------------------------------------------ *)
(* Properties of the aborted flag                                       *)
(* ------------------------------------------------------------------ *)
(* C14: a builder entry point called when the aborted flag is already
   set leaves the compilation context as it is: the draft table, the
   pending constraints, the ledger and the program are unchanged; in
   particular sqlEndTable and sql_finish_coding add no instruction. *)
C14_AbortedBuildersDoNothing ==
    (parse.is_aborted /\ ~parse.crashed /\ Len(parse.fields) >= 1) =>
        /\ \A c \in Columns : sqlAddColumn(parse, c.name, c.type) = parse
        /\ \A a \in NullActions :
               sql_column_add_nullable_action(parse, a) = parse
        /\ \A coll_name \in CollNames :
               sqlAddCollateType(parse, coll_name) = parse
        /\ \A col_list \in KeyLists, cname \in ConstraintNames :
               /\ sql_create_index(parse, col_list, cname,
                      SQL_INDEX_TYPE_CONSTRAINT_UNIQUE) = parse
               /\ sqlAddPrimaryKey(parse, col_list, cname) = parse
        /\ \A cname \in CkNames, expr \in CkExprs :
               sql_create_check_contraint(parse, cname, expr) = parse
        /\ sqlEndTable(parse) = parse
        /\ sql_finish_coding(parse) = parse

(* the instructions a builder appended to the program of parse *)
Appended(q) == SubSeq(q.aOp, Len(parse.aOp) + 1, Len(q.aOp))

OpcodesOf(ops) == {ops[i].opcode : i \in 1..Len(ops)}

(* C14 as the code has it: with the aborted flag set sql_create_index
   leaves the compilation context as it is, and sql_finish_coding keeps
   the flag and the draft table, changes nothing of the emitted
   instructions but the error target of the inserts, appends only the
   OP_Halt pair and one delete per ledger record but the first, and adds
   no transaction start, no OP_Goto and no jump target to the first
   instruction. *)
C14_AbortedFlagRespected ==
    (parse.is_aborted /\ ~parse.crashed /\ Len(parse.fields) >= 1) =>
        /\ \A col_list \in KeyLists, cname \in ConstraintNames :
               sql_create_index(parse, col_list, cname,
                   SQL_INDEX_TYPE_CONSTRAINT_UNIQUE) = parse
        /\ LET q == sql_finish_coding(parse)
           IN /\ q.is_aborted
              /\ \A a \in 1..Len(parse.aOp) :
                     \/ q.aOp[a] = parse.aOp[a]
                     \/ /\ parse.aOp[a].opcode = "SInsert"
                        /\ q.aOp[a] = [parse.aOp[a] EXCEPT !.p2 = q.aOp[a].p2]
              /\ q.aOp[1].opcode = "Init" /\ q.aOp[1].p2 = parse.aOp[1].p2
              /\ OpcodesOf(Appended(q)) \subseteq
                     {"Halt", "MakeRecord", "SDelete"}
              /\ Cardinality({i \in 1..Len(Appended(q)) :
                                Appended(q)[i].opcode = "SDelete"})
                     = IF parse.record_list = <<>> THEN 0
                       ELSE Len(parse.record_list) - 1
              /\ q.new_fkey = parse.new_fkey
              /\ q.new_check = parse.new_check
              /\ q.index = parse.index
              /\ q.fields = parse.fields

(* sqlEndTable stopped on a foreign key after it emitted the rows of the
   table and of its indexes *)
C14_Witness ==
    /\ parse.is_aborted /\ ~parse.crashed
    /\ Len(parse.record_list) >= 2
    /\ parse.new_fkey # <<>>

(* ------------------------------------------------------------------ *)
(* Properties of the table-name existence check                         *)
(* ------------------------------------------------------------------ *)
(* the catalog held a space with the name of the new table when the
   program started (the program never deletes that row) *)
NameExisted == ExistingSpaceRow(parse.new_space) \in box

Built == phase \in {"ready", "exec", "halted"}

AddressesOf(opcodes) ==
    {a \in 1..Len(parse.aOp) : parse.aOp[a].opcode \in opcodes}

(* C15: in the built program the first presence test is on the name
   index of _space and is placed before the id allocation and before
   every insert.  When the name exists at execution time the program
   halts without having executed any insert or delete, with success if IF
   NOT EXISTS was given and with the space-exists error otherwise; when
   the name is absent the first catalog instruction executed after the
   test is the table-row insert. *)
C15_ExistenceTestFirst ==
    /\ (Built /\ AddressesOf({"SInsert"}) # {}) =>
           \E t \in AddressesOf({"NoConflict"}) :
               /\ parse.aOp[t - 1].opcode = "IteratorOpen"
               /\ parse.aOp[t - 1].p4 = VStr(<<BOX_SPACE_ID>>)
               /\ parse.aOp[t - 1].p2 = 2
               /\ parse.aOp[t].p3 = 1
               /\ parse.aOp[1].opcode = "Init"
               /\ \A a \in AddressesOf({"SInsert", "IncMaxid", "NoConflict"}) :
                      a >= t
    /\ (Halted /\ NameExisted) =>
           /\ Len(trace) = 1
           /\ IF parse.if_not_exist
              THEN rc = "ok" /\ trace[1].ev = "halt"
              ELSE /\ rc = "error" /\ trace[1].ev = "halt_error"
                   /\ CurOp.p5 = "ER_SPACE_EXISTS"
           /\ box = {ExistingSpaceRow(parse.new_space)}
    /\ (phase \in {"exec", "halted"} /\ ~NameExisted) =>
           IF trace = <<>>
           THEN \/ /\ CurOp.opcode = "NoConflict"
                   /\ \A a \in AddressesOf({"NoConflict"}) : a >= pc + 1
                \/ CurOp.opcode = "SInsert" /\ CurOp.p1 = BOX_SPACE_ID
           ELSE /\ trace[1].ev \in {"insert", "insert_failed"}
                /\ trace[1].space = BOX_SPACE_ID

(* CREATE TABLE IF NOT EXISTS t run when t exists: halted with success
   and nothing inserted *)
C15_Witness ==
    /\ Halted
    /\ NameExisted
    /\ parse.if_not_exist
    /\ rc = "ok"
    /\ Len(trace) = 1

(* ------------------------------------------------------------------ *)
(* Properties of foreign keys declared in CREATE TABLE                  *)
(* ------------------------------------------------------------------ *)
(* the pending foreign key references the table being created *)
SelfReferencing(fk) == fk.has_def /\ fk.parent_name = parse.new_space

FkInserts == {a \in AddressesOf({"SInsert"}) :
                 parse.aOp[a].p1 = BOX_FK_CONSTRAINT_ID}

SpaceInserts == {a \in AddressesOf({"SInsert"}) :
                    parse.aOp[a].p1 = BOX_SPACE_ID}

(* the register OP_IncMaxid leaves the id of the new table in *)
NewSpaceIdReg == parse.aOp[CHOOSE a \in AddressesOf({"IncMaxid"}) : TRUE].p1

(* C16: a foreign key of CREATE TABLE t that references t has no parent
   id and no parent field before sqlEndTable; after sqlEndTable its
   parent fields are fields of t, the instructions that load the child id
   and the parent id of its _fk_constraint row copy the register of the
   newly allocated id of t, and the insert of the row comes after the
   insert of the table row. *)
C16_SelfReferenceResolvedAtEnd ==
    /\ (phase \in {"cols", "tcons"} /\ Parsing) =>
           \A i \in 1..Len(parse.new_fkey) :
               SelfReferencing(parse.new_fkey[i]) =>
                   /\ parse.new_fkey[i].parent_id = 0
                   /\ \A k \in 1..Len(parse.new_fkey[i].links) :
                          parse.new_fkey[i].links[k].parent_field = -1
    /\ (phase = "end" /\ Parsing) =>
           \A i \in 1..Len(parse.new_fkey) :
               SelfReferencing(parse.new_fkey[i]) =>
                   LET fk == parse.new_fkey[i]
                       a == NthOf(FkInserts, i)
                   IN /\ \A k \in 1..Len(fk.links) :
                             fk.links[k].parent_field \in
                                 0..(Len(parse.fields) - 1)
                      /\ parse.aOp[a - 13].opcode = "SCopy"
                      /\ parse.aOp[a - 13].p1 = NewSpaceIdReg
                      /\ parse.aOp[a - 12].opcode = "SCopy"
                      /\ parse.aOp[a - 12].p1 = NewSpaceIdReg
                      /\ \A t \in SpaceInserts : t < a

(* the number of parent columns of a foreign key: the length of the list
   of the REFERENCES clause, or the number of parts of the primary key of
   the referenced table *)
ParentColumnCount(parent_name, parent_cols) ==
    IF parent_cols # <<>> THEN Len(parent_cols)
    ELSE IF parent_name = parse.new_space THEN Len(parse.index[1].parts)
    ELSE Len((CHOOSE sp \in space_by_name(parent_name) : TRUE).pk_parts)

(* C17: a foreign key whose _fk_constraint insert is emitted has as many
   child columns as parent columns, and a declaration whose numbers
   differ sets the aborted flag and emits nothing (for a reference to the
   table itself without parent columns the numbers are compared when the
   table is finished). *)
C17_ColumnCountsMatch ==
    /\ phase = "end" =>
           \A i \in 1..Len(parse.new_fkey) :
               i <= Cardinality(FkInserts) =>
                   parse.new_fkey[i].field_count =
                       ParentColumnCount(parse.new_fkey[i].parent_name,
                                         parse.new_fkey[i].parent_cols)
    /\ (phase \in {"cols", "tcons"} /\ Parsing /\ Len(parse.fields) >= 1) =>
           \A cname \in FkConstraintNames, parent_name \in FkParentNames,
              l \in FkColumnLists :
               LET q == sql_create_foreign_key(parse, cname, parent_name,
                                               l.child, l.parent)
                   n == IF l.child = <<>> THEN 1 ELSE Len(l.child)
               IN ( /\ l.child = <<>> => phase = "cols"
                    /\ l.parent # <<>> \/ parent_name # parse.new_space
                    /\ space_by_name(parent_name) # {}
                           \/ parent_name = parse.new_space
                    /\ n # ParentColumnCount(parent_name, l.parent) )
                  => q.is_aborted /\ q.aOp = parse.aOp

(* ------------------------------------------------------------------ *)
(* Properties of the generated constraint names                         *)
(* ------------------------------------------------------------------ *)
(* the names of a list of pending constraints in declaration order (the
   lists are kept head first) *)
DeclaredNames(list) ==
    [i \in 1..Len(list) |-> list[Len(list) + 1 - i].name]

(* a name the builders generated: prefix, ordinal, "_", table *)
GeneratedNames(list, prefix) ==
    SelectSeq(DeclaredNames(list),
              LAMBDA n : Len(n) = 4 /\ n[1] = prefix)

Numbered(names, prefix) ==
    \A j \in 1..Len(names) :
        names[j] = <<prefix, ToString(j), "_", parse.new_space>>

(* C18: in a statement that has not failed the j-th foreign key declared
   without a name is called FK_CONSTRAINT_<j>_<table> and the j-th check
   declared without a name CK_CONSTRAINT_<j>_<table>; each counter counts
   the unnamed constraints of its own kind only, and a named constraint
   keeps its name. *)
C18_GeneratedNamesNumbered ==
    (Parsing /\ phase \in {"cols", "tcons", "end"}) =>
        LET fk_names == GeneratedNames(parse.new_fkey, "FK_CONSTRAINT_")
            ck_names == GeneratedNames(parse.new_check, "CK_CONSTRAINT_")
        IN /\ Numbered(fk_names, "FK_CONSTRAINT_")
           /\ Numbered(ck_names, "CK_CONSTRAINT_")
           /\ parse.fkey_count = Len(fk_names)
           /\ parse.check_count = Len(ck_names)
           /\ \A i \in 1..Len(parse.new_fkey) :
                  parse.new_fkey[i].name \in
                      FkConstraintNames \cup {fk_names[j] :
                                                 j \in 1..Len(fk_names)}
           /\ \A i \in 1..Len(parse.new_check) :
                  parse.new_check[i].name \in
                      CkNames \cup {ck_names[j] : j \in 1..Len(ck_names)}

(* a named foreign key declared before an unnamed one, and two unnamed
   checks *)
C18_Witness ==
    /\ Parsing /\ phase = "end"
    /\ Len(parse.new_fkey) = 2
    /\ DeclaredNames(parse.new_fkey)[1] = <<"f">>
    /\ DeclaredNames(parse.new_fkey)[2]
           = <<"FK_CONSTRAINT_", "1", "_", parse.new_space>>
    /\ DeclaredNames(parse.new_check)
           = << <<"CK_CONSTRAINT_", "1", "_", parse.new_space>>,
                <<"CK_CONSTRAINT_", "2", "_", parse.new_space>> >>

(* ------------------------------------------------------------------ *)
(* Properties of the stored text of a check expression                  *)
(* ------------------------------------------------------------------ *)
(* the quote character that is open before character i of str, "" when
   none is: a quote opens a region and the next quote of the same kind
   closes it *)
RECURSIVE OpenQuote(_, _)
OpenQuote(str, i) ==
    IF i = 1 THEN ""
    ELSE LET q == OpenQuote(str, i - 1)
             c == str[i - 1]
         IN IF q = "" THEN (IF c \in {"'", "\""} THEN c ELSE "")
            ELSE IF c = q THEN "" ELSE q

(* character i of str is a whitespace outside every quoted region *)
FreeSpace(str, i) ==
    /\ i \in 1..Len(str)
    /\ OpenQuote(str, i) = ""
    /\ str[i] \in {" ", "\t", "\n"}

(* the positions that give an output character: every character that is
   not a free whitespace, and the first whitespace of each maximal run *)
Kept(str) ==
    {i \in 1..Len(str) : FreeSpace(str, i) => ~FreeSpace(str, i - 1)}

Collapsed(str) ==
    [k \in 1..Cardinality(Kept(str)) |->
        LET i == NthOf(Kept(str), k)
        IN IF FreeSpace(str, i) THEN " " ELSE str[i]]

StoredText == parse.new_check[1].expr_str

(* C19: the stored text of a check expression is its source with every
   maximal run of whitespace outside quoted regions replaced by one space
   and every other character, the quoted regions with their whitespace
   included, copied as it is; it is never longer than the source. *)
C19_WhitespaceRunsCollapsed ==
    phase = "normalized" =>
        /\ StoredText = Collapsed(keyin)
        /\ Len(StoredText) <= Len(keyin)

(* a source with a run of two whitespaces outside and two inside a
   quoted region *)
C19_Witness ==
    /\ phase = "normalized"
    /\ keyin = <<" ", "\t", "'", " ", " ">>
    /\ StoredText = <<" ", "'", " ", " ">>

(* C20 as stated: the spaced comparison is stored as a = 'x   y' without
   a space before a and after the closing quote. *)
C20_OuterRunsDropped ==
    (phase = "normalized" /\ keyin = SpacedComparison) =>
        StoredText = <<"a", " ", "=", " ", "'", "x", " ", " ", " ", "y", "'">>

(* C20 as the code has it: the runs at the start and at the end of the
   source give one space each, so the spaced comparison is stored with
   one space before a and one after the closing quote; a source that
   starts (ends) with a whitespace outside quotes is stored with a space
   first (last). *)
C20_OuterRunsKeptAsOneSpace ==
    phase = "normalized" =>
        /\ keyin = SpacedComparison =>
               StoredText = <<" ", "a", " ", "=", " ", "'", "x", " ", " ",
                              " ", "y", "'", " ">>
        /\ FreeSpace(keyin, 1) =>
               StoredText[1] = " " /\ ~FreeSpace(StoredText, 2)
        /\ FreeSpace(keyin, Len(keyin)) =>
               StoredText[Len(StoredText)] = " "

C20_Witness ==
    /\ phase = "normalized"
    /\ keyin = SpacedComparison
    /\ Len(StoredText) = 13

(* ------------------------------------------------------------------ *)
(* Properties of DROP TABLE, DROP VIEW and DROP INDEX                   *)
(* ------------------------------------------------------------------ *)
DropTableDone == phase = "end" /\ Len(keyin) = 4 /\ keyin[1] = "DROP TABLE"

DropIndexDone == phase = "end" /\ Len(keyin) = 4 /\ keyin[1] = "DROP INDEX"

CachedNames == {sp.name : sp \in CachedSpaces}

(* the instructions of the program after the OP_Init the program is
   created with *)
Emitted == SubSeq(parse.aOp, 2, Len(parse.aOp))

(* C21: sql_drop_table on a name that is no table emits no instruction;
   with IF EXISTS the aborted flag stays clear and no error is set,
   without it the no-such-space error is set and the flag raised. *)
C21_DropOfMissingTable ==
    (DropTableDone /\ keyin[2] \notin CachedNames) =>
        /\ parse.aOp[1].opcode = "Init"
        /\ Emitted = <<>>
        /\ keyin[3] => ~parse.is_aborted /\ parse.diag = "none"
        /\ ~keyin[3] => parse.is_aborted /\ parse.diag = "ER_NO_SUCH_SPACE"

C21_Witness ==
    /\ DropTableDone
    /\ keyin[2] \notin CachedNames
    /\ keyin[3]
    /\ ~parse.is_aborted
    /\ Emitted = <<>>

(* the cached table or view a finished DROP TABLE or DROP VIEW names *)
Dropped == CHOOSE sp \in CachedSpaces : sp.name = keyin[2]

(* a DROP TABLE of a cached table or a DROP VIEW of a cached view *)
DropOfRightKind ==
    /\ DropTableDone
    /\ keyin[2] \in CachedNames
    /\ keyin[4] = Dropped.is_view

(* the foreign keys of other tables that reference the space *)
ForeignReferences(space) ==
    {i \in 1..Len(space.parent_fk_constraint) :
        space.parent_fk_constraint[i].child_id # space.id}

(* the catalog spaces of the row deletes of a program, in program order *)
RECURSIVE DeletesOf(_)
DeletesOf(ops) ==
    IF ops = <<>> THEN <<>>
    ELSE (IF Head(ops).opcode = "SDelete" THEN <<Head(ops).p1>> ELSE <<>>)
         \o DeletesOf(Tail(ops))

(* C22: sql_drop_table fails with the dependent-objects error and emits
   no delete when a foreign key of another table references the table;
   when every referencing foreign key is a self-reference, or there is
   none, the drop program is emitted. *)
C22_DropRefusedWhenReferenced ==
    DropOfRightKind =>
        IF ForeignReferences(Dropped) # {}
        THEN /\ parse.is_aborted
             /\ parse.diag = "ER_DROP_SPACE: other objects depend on it"
             /\ DeletesOf(parse.aOp) = <<>>
        ELSE /\ ~parse.is_aborted
             /\ parse.diag = "none"
             /\ DeletesOf(parse.aOp) # <<>>
             /\ parse.aOp[Len(parse.aOp)].opcode = "SDelete"
             /\ parse.aOp[Len(parse.aOp)].p1 = BOX_SPACE_ID

(* the table m, referenced by itself and by s, is not dropped *)
C22_Witness ==
    /\ DropOfRightKind
    /\ keyin[2] = "m"
    /\ parse.is_aborted
    /\ DeletesOf(parse.aOp) = <<>>

(* the cached index a DROP INDEX names: the table of that name is cached
   and has an index of that name *)
IndexesNamed ==
    {<<sp, i>> \in CachedSpaces \X (1..3) :
        /\ sp.name = keyin[2]
        /\ i <= Len(sp.index)
        /\ sp.index[i].name = keyin[3]}

(* the constant OP_Integer loads into register reg in the program ops *)
IntegerIn(ops, reg) ==
    LET at == {i \in 1..Len(ops) : ops[i].opcode = "Integer" /\ ops[i].p2 = reg}
    IN ops[CHOOSE i \in at : \A j \in at : j <= i].p1

(* C23: sql_drop_index emits exactly one catalog row delete, on _index
   with the key (table id, index id), when the table and the index are
   found; otherwise it emits no delete and reports a not-found error
   only if IF EXISTS was not given. *)
C23_DropIndexDeletesOneRow ==
    DropIndexDone =>
        IF IndexesNamed # {}
        THEN \E d \in 2..Len(parse.aOp), found \in IndexesNamed :
                /\ DeletesOf(parse.aOp) = <<BOX_INDEX_ID>>
                /\ parse.aOp[d].opcode = "SDelete"
                /\ parse.aOp[d - 1].opcode = "MakeRecord"
                /\ parse.aOp[d - 1].p3 = parse.aOp[d].p2
                /\ parse.aOp[d - 1].p2 = 2
                /\ IntegerIn(parse.aOp, parse.aOp[d - 1].p1) = found[1].id
                /\ IntegerIn(parse.aOp, parse.aOp[d - 1].p1 + 1)
                       = found[1].index[found[2]].iid
                /\ ~parse.is_aborted
        ELSE /\ DeletesOf(parse.aOp) = <<>>
             /\ parse.is_aborted = ~keyin[4]
             /\ parse.diag = IF keyin[4] THEN "none"
                             ELSE IF keyin[2] \in CachedNames
                             THEN "ER_NO_SUCH_INDEX_NAME"
                             ELSE "ER_NO_SUCH_SPACE"

(* DROP INDEX i3 ON c deletes the row (513, 3) of _index *)
C23_Witness ==
    /\ DropIndexDone
    /\ keyin[2] = "c"
    /\ keyin[3] = "i3"
    /\ DeletesOf(parse.aOp) = <<BOX_INDEX_ID>>
    /\ IntegerIn(parse.aOp, parse.aOp[Len(parse.aOp) - 1].p1 + 1) = 3

(* the row deletes and the view-reference check of a program, in
   program order: the catalog space of a delete, the opcode of the check *)
RECURSIVE DropSteps(_)
DropSteps(ops) ==
    IF ops = <<>> THEN <<>>
    ELSE (IF Head(ops).opcode = "SDelete" THEN <<Head(ops).p1>>
          ELSE IF Head(ops).opcode = "CheckViewReferences"
          THEN <<"CheckViewReferences">>
          ELSE <<>>)
         \o DropSteps(Tail(ops))

(* the index ids of the deletes on _index, in program order: the constant
   loaded two instructions before the delete *)
RECURSIVE IndexIdsDeleted(_, _)
IndexIdsDeleted(ops, d) ==
    IF d > Len(ops) THEN <<>>
    ELSE (IF ops[d].opcode = "SDelete" /\ ops[d].p1 = BOX_INDEX_ID
          THEN <<ops[d - 2].p1>> ELSE <<>>)
         \o IndexIdsDeleted(ops, d + 1)

Times(x, n) == [i \in 1..n |-> x]

(* the order of section "Drop table" for the space sp *)
DropOrder(sp) ==
    Times(BOX_TRIGGER_ID, Len(sp.sql_triggers))
    \o <<"CheckViewReferences">>
    \o (IF sp.sequence # 0
        THEN <<BOX_SEQUENCE_DATA_ID, BOX_SPACE_SEQUENCE_ID, BOX_SEQUENCE_ID>>
        ELSE <<>>)
    \o Times(BOX_FK_CONSTRAINT_ID, Len(sp.child_fk_constraint))
    \o Times(BOX_CK_CONSTRAINT_ID, Len(sp.ck_constraint))
    \o (IF sp.is_view THEN <<>> ELSE Times(BOX_INDEX_ID, Len(sp.index)))
    \o <<BOX_TRUNCATE_ID, BOX_SPACE_ID>>

(* C30: the drop program deletes in this order: the triggers, then the
   view-reference check, the rows of _sequence_data, _space_sequence and
   _sequence of an attached sequence, every child foreign key, every
   check, for a table the secondary index rows and then the primary one,
   the _truncate row and last the _space row; a view has no _index
   delete. *)
C30_DropOrder ==
    (DropOfRightKind /\ ~parse.is_aborted) =>
        /\ DropSteps(parse.aOp) = DropOrder(Dropped)
        /\ IndexIdsDeleted(parse.aOp, 1) =
               IF Dropped.is_view THEN <<>>
               ELSE [i \in 1..(Len(Dropped.index) - 1) |->
                        Dropped.index[i + 1].iid] \o <<0>>

(* DROP TABLE c: a trigger, a sequence, two foreign keys, two checks and
   the indexes 1, 3 and 0 *)
C30_Witness ==
    /\ DropOfRightKind
    /\ keyin[2] = "c"
    /\ Len(DropSteps(parse.aOp)) = 14
    /\ IndexIdsDeleted(parse.aOp, 1) = <<1, 3, 0>>

(* DROP VIEW v: no delete on _index *)
C30_WitnessView ==
    /\ DropOfRightKind
    /\ keyin[2] = "v"
    /\ DropSteps(parse.aOp) =
           <<BOX_TRIGGER_ID, "CheckViewReferences", BOX_TRUNCATE_ID,
             BOX_SPACE_ID>>

(* ------------------------------------------------------------------ *)
(* Properties of CREATE VIEW                                            *)
(* ------------------------------------------------------------------ *)
CreateViewDone == phase = "end" /\ Len(keyin) = 6 /\ keyin[1] = "CREATE VIEW"

(* the catalog spaces of the row inserts of a program, in program order *)
RECURSIVE InsertsOf(_)
InsertsOf(ops) ==
    IF ops = <<>> THEN <<>>
    ELSE (IF Head(ops).opcode = "SInsert" THEN <<Head(ops).p1>> ELSE <<>>)
         \o InsertsOf(Tail(ops))

(* the view has bind parameters, a SELECT that does not compile, or a
   column list that is not as long as the result of the SELECT *)
ViewRefused ==
    \/ keyin[4] > 0
    \/ keyin[5] = <<>>
    \/ keyin[6] # <<>> /\ Len(keyin[6]) # Len(keyin[5])

(* C24: the CREATE VIEW program has the existence pre-check followed by
   exactly one catalog insert, the _space row, and no insert on _index,
   _sequence, _fk_constraint or _ck_constraint; a view with bind
   parameters or with an alias count that does not match emits no
   insert. *)
C24_ViewInsertsOneSpaceRow ==
    CreateViewDone =>
        IF ViewRefused
        THEN InsertsOf(parse.aOp) = <<>> /\ parse.is_aborted
        ELSE /\ InsertsOf(parse.aOp) = <<BOX_SPACE_ID>>
             /\ ~parse.is_aborted
             /\ \E t \in 1..Len(parse.aOp), i \in 1..Len(parse.aOp) :
                   /\ t + 1 < i
                   /\ parse.aOp[t].opcode = "IteratorOpen"
                   /\ parse.aOp[t].p4 = VStr(<<BOX_SPACE_ID>>)
                   /\ parse.aOp[t + 1].opcode = "NoConflict"
                   /\ parse.aOp[t + 2].opcode = "Halt"
                   /\ parse.aOp[t + 2].p1 =
                          (IF keyin[3] THEN SQL_OK ELSE SQL_TARANTOOL_ERROR)
                   /\ parse.aOp[i].opcode = "SInsert"

C24_Witness ==
    /\ CreateViewDone
    /\ keyin[4] = 0
    /\ keyin[5] = <<"a", "b">>
    /\ keyin[6] = <<"a", "b">>
    /\ InsertsOf(parse.aOp) = <<BOX_SPACE_ID>>

(* ------------------------------------------------------------------ *)
(* Properties of the clean-up block of sql_finish_coding                *)
(* ------------------------------------------------------------------ *)
(* the addresses (from 1) of the halt-with-error instructions of ops *)
ErrorHalts(ops) ==
    {i \in 1..Len(ops) :
        ops[i].opcode = "Halt" /\ ops[i].p1 = SQL_TARANTOOL_ERROR}

(* the addresses (from 1) of the deletes of ops *)
DeleteAddresses(ops) == {i \in 1..Len(ops) : ops[i].opcode = "SDelete"}

(* C27: with n entries in the ledger at finalization the clean-up block
   has a delete sequence for every recorded insertion but the most
   recently recorded one, n - 1 in all, followed by exactly one
   halt-with-error; with an empty ledger it has no delete and no
   halt-with-error. *)
C27_CleanupBlockShape ==
    (phase = "end" /\ Parsing) =>
        LET n == Len(parse.record_list)
            ops == Appended(sql_finish_coding(parse))
        IN IF n = 0
           THEN DeleteAddresses(ops) = {} /\ ErrorHalts(ops) = {}
           ELSE /\ Cardinality(DeleteAddresses(ops)) = n - 1
                /\ \A k \in 1..(n - 1) :
                      LET d == NthOf(DeleteAddresses(ops), k)
                          record == parse.record_list[k + 1]
                      IN /\ ops[d].p1 = record.space_id
                         /\ ops[d - 1].opcode = "MakeRecord"
                         /\ ops[d - 1].p1 = record.reg_key
                         /\ ops[d - 1].p2 = record.reg_key_count
                         /\ ops[d - 1].p3 = ops[d].p2
                /\ Cardinality(ErrorHalts(ops)) = 1
                /\ \A h \in ErrorHalts(ops), d \in DeleteAddresses(ops) : d < h
                /\ \A h \in ErrorHalts(ops) : h = 2 * n

(* a finished CREATE TABLE with three recorded insertions: two deletes
   and the halt-with-error after them *)
C27_Witness ==
    /\ phase = "ready"
    /\ Len(InsertsOf(parse.aOp)) = 3
    /\ Len(DeletesOf(parse.aOp)) = 2
    /\ \E h \in ErrorHalts(parse.aOp) :
          /\ parse.aOp[h - 1].opcode = "SDelete"
          /\ parse.aOp[h - 3].opcode = "SDelete"
          /\ parse.aOp[h - 5].opcode = "Halt"

(* the finished program of a compiled statement *)
Finished == sql_finish_coding(parse)

(* the address of the OP_SDelete of the delete sequence of ledger entry
   k >= 2 in the finished program: the (k - 1)-th delete of the clean-up
   block, which comes after every instruction of the statement *)
OwnDelete(k) ==
    Len(parse.aOp) - 1
    + NthOf(DeleteAddresses(Appended(Finished)), k - 1)

(* the jump target of the insertion of ledger entry k *)
JumpOf(k) == Finished.aOp[parse.record_list[k].insertion_opcode + 1].p2

CreateDone == phase = "end" /\ Parsing /\ parse.record_list # <<>>

(* C28 as stated: for every ledger entry but the popped one the jump
   target patched into its insertion is the address of the delete
   sequence that removes that entry's own row. *)
C28_JumpToOwnDelete ==
    CreateDone =>
        \A k \in 2..Len(parse.record_list) : JumpOf(k) = OwnDelete(k) - 1

(* C28 as the code has it: for every ledger entry but the popped one the
   jump target of its insertion is the address just after its own delete
   sequence, which is the delete sequence of the entry recorded before
   it or, for the entry recorded first, the halt-with-error; the jump of
   the popped entry goes to the first instruction of the clean-up
   block. *)
C28_JumpPastOwnDelete ==
    CreateDone =>
        /\ \A k \in 1..Len(parse.record_list) :
              LET at == parse.record_list[k].insertion_opcode + 1
              IN /\ Finished.aOp[at].opcode = "SInsert"
                 /\ Finished.aOp[at].p1 = parse.record_list[k].space_id
        /\ \A k \in 2..Len(parse.record_list) :
              /\ JumpOf(k) = OwnDelete(k) + 1
              /\ Finished.aOp[JumpOf(k) + 1].opcode =
                     (IF k < Len(parse.record_list) THEN "MakeRecord"
                      ELSE "Halt")
        /\ JumpOf(1) = Len(parse.aOp) + 1

(* a finished CREATE TABLE where the jump of an insertion goes to the
   delete sequence that follows the one of its own row *)
C28_Witness ==
    /\ phase = "ready"
    /\ \E i \in 1..Len(parse.aOp) :
          /\ parse.aOp[i].opcode = "SInsert"
          /\ parse.aOp[i].p1 = BOX_INDEX_ID
          /\ parse.aOp[parse.aOp[i].p2].opcode = "SDelete"
          /\ parse.aOp[parse.aOp[i].p2].p1 = BOX_INDEX_ID
          /\ parse.aOp[parse.aOp[i].p2 + 1].opcode = "MakeRecord"

(* ------------------------------------------------------------------ *)
(* Properties of the order of sqlEndTable                               *)
(* ------------------------------------------------------------------ *)
(* the addresses (from 1) of the instructions of ops with that opcode *)
At(ops, opcode) == {i \in 1..Len(ops) : ops[i].opcode = opcode}

(* the index ids of the inserts on _index, in program order: the constant
   loaded into the second register of the record of the row *)
RECURSIVE IndexIdsInserted(_, _)
IndexIdsInserted(ops, i) ==
    IF i > Len(ops) THEN <<>>
    ELSE (IF ops[i].opcode = "SInsert" /\ ops[i].p1 = BOX_INDEX_ID
          THEN <<IntegerIn(ops, ops[i - 1].p1 + 1)>> ELSE <<>>)
         \o IndexIdsInserted(ops, i + 1)

(* the order of "finalize" for the draft table of the context q *)
EndTableOrder(q) ==
    <<BOX_SPACE_ID>>
    \o Times(BOX_INDEX_ID, Len(q.index))
    \o (IF q.has_autoinc THEN <<BOX_SEQUENCE_ID, BOX_SPACE_SEQUENCE_ID>>
        ELSE <<>>)
    \o Times(BOX_FK_CONSTRAINT_ID, Len(q.new_fkey))
    \o Times(BOX_CK_CONSTRAINT_ID, Len(q.new_check))

EndTableDone == phase = "end" /\ Parsing /\ parse.new_space # "NULL"

(* C29: sqlEndTable emits the existence pre-check, the id allocation,
   the _space row, one _index row per attached index in slot order with
   the primary key (iid 0) first, for an auto-increment column the
   _sequence row and then the _space_sequence row, one _fk_constraint row
   per pending foreign key and one _ck_constraint row per pending check,
   in this order; each insert has exactly one ledger entry. *)
C29_EndTableOrder ==
    EndTableDone =>
        LET ops == parse.aOp
            n == Len(parse.record_list)
        IN /\ InsertsOf(ops) = EndTableOrder(parse)
           /\ IndexIdsInserted(ops, 1) =
                  [k \in 1..Len(parse.index) |-> parse.index[k].iid]
           /\ IndexIdsInserted(ops, 1)[1] = 0
           /\ \E t \in At(ops, "NoConflict"), a \in At(ops, "IncMaxid") :
                 /\ ops[t - 1].p4 = VStr(<<BOX_SPACE_ID>>)
                 /\ t < a
                 /\ \A i \in At(ops, "SInsert") : a < i
                 /\ At(ops, "IncMaxid") = {a}
           /\ n = Cardinality(At(ops, "SInsert"))
           /\ \A k \in 1..n :
                 LET record == parse.record_list[n + 1 - k]
                 IN /\ record.insertion_opcode + 1 =
                           NthOf(At(ops, "SInsert"), k)
                    /\ record.space_id = InsertsOf(ops)[k]

(* a table with a primary key, a second index and a check *)
C29_Witness ==
    /\ EndTableDone
    /\ IndexIdsInserted(parse.aOp, 1) = <<0, 1>>
    /\ InsertsOf(parse.aOp) =
           <<BOX_SPACE_ID, BOX_INDEX_ID, BOX_INDEX_ID, BOX_CK_CONSTRAINT_ID>>
    /\ Len(parse.record_list) = 4

(* ------------------------------------------------------------------ *)
(* Properties of two CREATE INDEX programs run together                 *)
(* ------------------------------------------------------------------ *)
(* the places in the log of the entries of session s with an event of evs *)
Logged(s, evs) ==
    {i \in 1..Len(trace) : trace[i].session = s /\ trace[i].ev \in evs}

(* session s has run its insert; Attempt is its place in the log *)
Attempted(s) == Logged(s, {"insert", "insert_failed"}) # {}

Attempt(s) == CHOOSE i \in Logged(s, {"insert", "insert_failed"}) : TRUE

Seek(s) == CHOOSE i \in Logged(s, {"seek"}) : TRUE

(* both sessions have run the insert of an index of the same table *)
BothAttempted(s, t) ==
    /\ phase = "exec"
    /\ s # t
    /\ keyin[s][1] = keyin[t][1]
    /\ Attempted(s)
    /\ Attempted(t)

(* C25 as stated: two CREATE INDEX programs for the same table, run with
   any interleaving of their instructions, never build index rows with
   the same index id. *)
C25_IndexIdsNeverCollide ==
    \A s, t \in Sessions :
        BothAttempted(s, t) =>
            trace[Attempt(s)].key[2] # trace[Attempt(t)].key[2]

(* C25 as the code has it: the index id is computed by a seek to the last
   row of the table in _index, a read of its index id and an add of one;
   no counter is incremented.  Two programs for the same table build rows
   with the same index id exactly when each runs its seek before the
   other runs its insert, and then the insert that runs second fails. *)
C25_IndexIdsCollideWhenOverlapping ==
    /\ phase = "exec" =>
          \A s \in Sessions : ~parse[s].is_aborted =>
              /\ At(parse[s].aOp, "IncMaxid") = {}
              /\ \E k \in At(parse[s].aOp, "SeekLE"),
                    c \in At(parse[s].aOp, "Column") :
                    /\ k < c
                    /\ parse[s].aOp[c].p2 = BOX_INDEX_FIELD_ID
                    /\ parse[s].aOp[c + 1].opcode = "AddImm"
                    /\ parse[s].aOp[c + 1].p1 = parse[s].aOp[c].p3
                    /\ parse[s].aOp[c + 1].p2 = 1
    /\ \A s, t \in Sessions :
          BothAttempted(s, t) =>
              /\ (trace[Attempt(s)].key[2] = trace[Attempt(t)].key[2])
                     <=> (Seek(s) < Attempt(t) /\ Seek(t) < Attempt(s))
              /\ (/\ trace[Attempt(s)].key[2] = trace[Attempt(t)].key[2]
                  /\ Attempt(s) < Attempt(t))
                     => trace[Attempt(t)].ev = "insert_failed"

(* both programs have built the row (513, 4) for different names; the
   second insert has failed *)
C25_Witness ==
    /\ BothAttempted(1, 2)
    /\ keyin[1] = <<"c", "i4">>
    /\ keyin[2] = <<"c", "i5">>
    /\ trace[Attempt(1)].key[2] = 4
    /\ trace[Attempt(2)].key[2] = 4
    /\ trace[Attempt(2)].ev = "insert_failed"

(* C26: when an index of that name is created by another session after
   the compilation and before the execution of a CREATE INDEX program,
   the program halts with the duplicate-name error instead of executing
   the insert into _index. *)
C26_DuplicateNameHaltsBeforeInsert ==
    phase = "exec" =>
        \A s, t \in Sessions :
            (/\ s # t
             /\ keyin[s] = keyin[t]
             /\ \E i \in Logged(t, {"insert"}), j \in Logged(s, {"start"}) :
                   i < j)
            => ~Attempted(s)

(* ------------------------------------------------------------------ *)
(* C31: foreign keys of ALTER TABLE and the ledger                      *)
(* ------------------------------------------------------------------ *)
AlterDone == phase = "end" /\ Len(keyin) = 5 /\ keyin[1] = "ADD CONSTRAINT"

(* the ledger entries that record the insert at address a (from 1) *)
RecordsOf(a) ==
    {k \in 1..Len(parse.record_list) :
        parse.record_list[k].insertion_opcode = a - 1}

(* C31 as stated: a foreign-key insert emitted by CREATE TABLE is in the
   ledger, and after the compilation of ALTER TABLE ... ADD CONSTRAINT
   the ledger is as it was before the statement: empty. *)
C31_AlterLeavesLedgerUnchanged ==
    /\ EndTableDone => \A a \in FkInserts : RecordsOf(a) # {}
    /\ AlterDone => parse.record_list = <<>>

(* C31 amended: every emitted foreign-key insert has exactly one ledger
   entry, on _fk_constraint with the two key registers of its row, in
   CREATE TABLE and in ALTER TABLE alike.  The ledger of a compiled ALTER
   TABLE ... ADD CONSTRAINT holds that one entry; finalization emits no
   delete for it and sends the failure jump of the insert to the
   halt-with-error. *)
C31_FkInsertAlwaysRecorded ==
    /\ (phase = "end" /\ Parsing) =>
          \A a \in FkInserts :
              /\ Cardinality(RecordsOf(a)) = 1
              /\ \A k \in RecordsOf(a) :
                    /\ parse.record_list[k].space_id = BOX_FK_CONSTRAINT_ID
                    /\ parse.record_list[k].reg_key = parse.aOp[a - 1].p1
                    /\ parse.record_list[k].reg_key_count = 2
    /\ (AlterDone /\ Parsing) =>
          /\ Cardinality(FkInserts) = 1
          /\ Len(parse.record_list) = 1
          /\ DeleteAddresses(Finished.aOp) = {}
          /\ \A a \in FkInserts :
                /\ Finished.aOp[a].p2 = Len(parse.aOp) + 1
                /\ Finished.aOp[Len(parse.aOp) + 2].opcode = "Halt"
                /\ Finished.aOp[Len(parse.aOp) + 2].p1 = SQL_TARANTOOL_ERROR

(* ALTER TABLE c ADD CONSTRAINT f FOREIGN KEY (a) REFERENCES p (x) has
   compiled: the ledger holds the insert on _fk_constraint *)
C31_Witness ==
    /\ AlterDone /\ Parsing
    /\ keyin = <<"ADD CONSTRAINT", "c", "p", <<"a">>, <<"x">> >>
    /\ Len(parse.record_list) = 1
    /\ parse.new_space = "NULL"

(* ------------------------------------------------------------------ *)
(* C32: the register of the new index id                                *)
(* ------------------------------------------------------------------ *)
(* session s runs a compiled CREATE INDEX *)
SecIdx(s) == phase = "exec" /\ ~parse[s].is_aborted /\ rc[s] = "running"

(* addresses from 1: the fetch of the index id, and the MakeRecord that
   builds the row of _index *)
ColumnAt(s) == CHOOSE i \in At(parse[s].aOp, "Column") : TRUE

RowBuiltAt(s) == CHOOSE i \in At(parse[s].aOp, "MakeRecord") : TRUE

IidReg(s) == parse[s].aOp[ColumnAt(s)].p3

(* the instructions that assign the register: loads and column fetches *)
Writers(s) ==
    {i \in 1..Len(parse[s].aOp) :
        \/ /\ parse[s].aOp[i].opcode \in LoadOps
           /\ RegisterOut(parse[s].aOp[i]) = IidReg(s)
        \/ /\ parse[s].aOp[i].opcode = "Column"
           /\ parse[s].aOp[i].p3 = IidReg(s)}

TableOf(s) == (CHOOSE sp \in CachedSpaces : sp.name = keyin[s][1]).id

TableRows(s) ==
    {row \in box : row.space = BOX_INDEX_ID /\ row.tuple[1].n = TableOf(s)}

MaxIid(rows) ==
    CHOOSE n \in {row.tuple[2].n : row \in rows} :
        \A row \in rows : row.tuple[2].n <= n

(* the seek of s has left the cursor on a row of the table *)
RowFound(s) == csr[s] # <<>> /\ csr[s][1].n = TableOf(s)

(* no session has inserted a row: _index is as it was when s did its seek *)
IndexUntouched == \A i \in 1..Len(trace) : trace[i].ev # "insert"

(* C32: the program has two assignments of the index-id register, the
   fetch of the id of the row under the cursor (incremented in place by
   the next instruction) and the load of the sentinel 1.  The register is
   unset when either is reached, the fetch is reached only with the
   cursor on a row of the table and the sentinel only without one, and
   from the instruction after both to the MakeRecord of the _index row
   the register holds the id of the last _index row of the table plus one
   when there is such a row and 1 when there is none. *)
C32_IndexIdWrittenOnce ==
    \A s \in Sessions :
        SecIdx(s) =>
        LET c == ColumnAt(s)
            next == pc[s] + 1
            reg == aMem[s][IidReg(s)]
        IN /\ Writers(s) = {c, c + 3}
           /\ parse[s].aOp[c + 1].opcode = "AddImm"
           /\ parse[s].aOp[c + 1].p1 = IidReg(s)
           /\ parse[s].aOp[c + 3] = Op("Integer", 1, IidReg(s), 0)
           /\ RowBuiltAt(s) > c + 4
           /\ (next <= c \/ next = c + 3) => reg = VNull
           /\ next = c => RowFound(s)
           /\ next = c + 3 => ~RowFound(s)
           /\ next \in (c + 4)..RowBuiltAt(s) =>
                 /\ reg = IF RowFound(s) THEN VInt(csr[s][2].n + 1)
                                         ELSE VInt(1)
                 /\ IndexUntouched =>
                       reg = IF TableRows(s) = {} THEN VInt(1)
                             ELSE VInt(MaxIid(TableRows(s)) + 1)

(* session 1 is about to build the row of an index of n, which has no
   row in _index, with id 1; session 2 the row of an index of c, whose
   last index has id 3, with id 4 *)
C32_Witness ==
    /\ SecIdx(1) /\ SecIdx(2)
    /\ keyin[1][1] = "n" /\ keyin[2][1] = "c"
    /\ pc[1] + 1 = RowBuiltAt(1) /\ pc[2] + 1 = RowBuiltAt(2)
    /\ csr[1] # <<>> /\ ~RowFound(1)
    /\ aMem[1][IidReg(1)] = VInt(1)
    /\ aMem[2][IidReg(2)] = VInt(4)
    /\ IndexUntouched

(* ------------------------------------------------------------------ *)
(* C33: index ids of the draft table                                    *)
(* ------------------------------------------------------------------ *)
IndexIds(p) == {p.index[i].iid : i \in 1..Len(p.index)}

MaxOf(S) == IF S = {} THEN 0 ELSE CHOOSE n \in S : \A m \in S : m <= n

(* the attached indexes have pairwise distinct ids, and a UNIQUE
   constraint declared now neither attaches an index with id 0 nor gives
   id 0 to an attached one: an index it attaches has the id
   index_id_max + 1 *)
DistinctIndexIds ==
    /\ \A i, j \in 1..Len(parse.index) :
          i # j => parse.index[i].iid # parse.index[j].iid
    /\ Declaring =>
          \A col_list \in DeclLists, cname \in ConstraintNames :
              LET q == sql_create_index(parse, col_list, cname,
                                        SQL_INDEX_TYPE_CONSTRAINT_UNIQUE)
              IN /\ PrimaryKeySlots(q) = PrimaryKeySlots(parse)
                 /\ Len(q.index) # Len(parse.index) =>
                       /\ Len(q.index) = Len(parse.index) + 1
                       /\ SubSeq(q.index, 1, Len(parse.index)) = parse.index
                       /\ q.index[Len(q.index)].iid = parse.index_id_max + 1
                       /\ q.index[Len(q.index)].iid > MaxOf(IndexIds(parse))

(* index_id_max is the running maximum of the ids attached: every step
   leaves in it the larger of its value and the ids attached after the
   step *)
RunningMaximum ==
    parse'.index_id_max =
        Max(parse.index_id_max, MaxOf(IndexIds(parse')))

(* C33: in every reachable state of the draft table the attached indexes
   have pairwise distinct ids, id 0 is given only by a PRIMARY KEY
   declaration, and a secondary index that is attached gets the largest
   id attached so far plus one. *)
C33_IndexIdsDistinct == []DistinctIndexIds /\ [][RunningMaximum]_vars

(* a UNIQUE index with id 1 was retagged as the primary key, and the
   UNIQUE index attached after that has id 2 *)
C33_Witness ==
    /\ Len(parse.index) = 2
    /\ parse.index[1].iid = 0
    /\ HasPrefix(parse.index[1].name, <<"unique_">>)
    /\ parse.index[2].iid = 2
    /\ parse.index_id_max = 2

(* ------------------------------------------------------------------ *)
(* C34: the collation of an index on the last column                    *)
(* ------------------------------------------------------------------ *)
(* C34: after sqlAddCollateType has resolved a collation for the last
   column, every attached index of one key part on that column has the
   id of that collation on its key part, in whatever slot the index is
   and whatever the number of the column. *)
C34_CollationReachesIndexes ==
    (phase = "cols" /\ Declaring) =>
        \A coll_name \in KnownColls :
            LET q == sqlAddCollateType(parse, coll_name)
                c == Len(parse.fields) - 1
            IN \A i \in 1..Len(q.index) :
                   (/\ Len(q.index[i].parts) = 1
                    /\ q.index[i].parts[1].fieldno = c)
                   => q.index[i].parts[1].coll_id = coll_name

(* ------------------------------------------------------------------ *)
(* C35: quoted regions of a check expression                            *)
(* ------------------------------------------------------------------ *)
QuoteChars == {"'", "\""}

(* the least member of a set of positions, otherwise *)
FirstOf(S, otherwise) ==
    IF S = {} THEN otherwise ELSE CHOOSE i \in S : \A j \in S : i <= j

(* t has no quote character: each maximal run of whitespace becomes one
   space *)
CollapseSpaces(t) ==
    LET keep == {i \in 1..Len(t) :
                    t[i] \in {" ", "\t", "\n"} =>
                        (i = 1 \/ t[i - 1] \notin {" ", "\t", "\n"})}
    IN [k \in 1..Cardinality(keep) |->
           LET i == NthOf(keep, k)
           IN IF t[i] \in {" ", "\t", "\n"} THEN " " ELSE t[i]]

(* the text region by region: what comes before the first quote
   character is collapsed, the region from that character to the next
   character of closers(it) is copied, and the rest is treated the same
   way.  A last region that is not closed runs to the end. *)
RECURSIVE ByRegions(_, _)
ByRegions(str, any_closes) ==
    LET open == FirstOf({i \in 1..Len(str) : str[i] \in QuoteChars},
                        Len(str) + 1)
        closers == IF any_closes THEN QuoteChars ELSE {str[open]}
        close == FirstOf({i \in (open + 1)..Len(str) : str[i] \in closers},
                         Len(str))
    IN IF open > Len(str) THEN CollapseSpaces(str)
       ELSE CollapseSpaces(SubSeq(str, 1, open - 1))
            \o SubSeq(str, open, close)
            \o ByRegions(SubSeq(str, close + 1, Len(str)), any_closes)

(* C35 as stated: a quoted region opened by ' or " ends at the next quote
   character of either kind. *)
C35_AnyQuoteCloses ==
    phase = "normalized" => StoredText = ByRegions(keyin, TRUE)

(* C35 amended: a quoted region ends at the next occurrence of the quote
   character that opened it; the other quote character inside the region
   is copied like any other character and does not end it. *)
C35_SameQuoteCloses ==
    phase = "normalized" => StoredText = ByRegions(keyin, FALSE)

(* a region opened by ' holds a " and two spaces: all of it is stored *)
C35_Witness ==
    /\ phase = "normalized"
    /\ keyin = <<"'", "\"", " ", " ", "'">>
    /\ StoredText = keyin
    /\ ByRegions(keyin, TRUE) # keyin

(* ------------------------------------------------------------------ *)
(* C36: the clean-up block is off the path of a run without failure     *)
(* ------------------------------------------------------------------ *)
(* addresses from 1: the OP_Halt that ends the statement (0 when the
   program has none), the trailer, and the clean-up block between them *)
NormalHaltAt ==
    LET halts == {a \in At(parse.aOp, "Halt") : parse.aOp[a].p1 = SQL_OK}
    IN IF halts = {} THEN 0
       ELSE CHOOSE a \in halts : \A b \in halts : b <= a

TrailerAt == CHOOSE a \in At(parse.aOp, "TTransaction") : TRUE

CleanupBlock == (NormalHaltAt + 1)..(TrailerAt - 1)

(* the instructions that can pass control to the address in their P2 *)
Jumps == {"Init", "Goto", "NoConflict", "SInsert"}

(* the finalized program: the block holds nothing but delete sequences
   and the halt-with-error, holds every delete, follows an OP_Halt and
   is the target of the failure jumps of the inserts only *)
CleanupBlockApart ==
    /\ TrailerAt = Len(parse.aOp) - 1
    /\ parse.aOp[Len(parse.aOp)] = Op("Goto", 0, 1, 0)
    /\ parse.aOp[1].p2 + 1 = TrailerAt
    /\ DeleteAddresses(parse.aOp) \subseteq CleanupBlock
    /\ \A a \in CleanupBlock :
          \/ parse.aOp[a].opcode \in {"MakeRecord", "SDelete"}
          \/ /\ parse.aOp[a].opcode = "Halt"
             /\ parse.aOp[a].p1 = SQL_TARANTOOL_ERROR
             /\ a = TrailerAt - 1
    /\ \A a \in 1..Len(parse.aOp) :
          (/\ parse.aOp[a].opcode \in Jumps
           /\ parse.aOp[a].p2 + 1 \in CleanupBlock)
          => parse.aOp[a].opcode = "SInsert"
    /\ \A a \in At(parse.aOp, "SInsert") :
          parse.aOp[a].p2 + 1 \in CleanupBlock

(* C36: the clean-up block of a finalized program lies between the
   OP_Halt that ends the statement and the trailer and is reached only
   through the failure jump of an insert; in a run in which no insert
   has failed no delete and no halt of the block is executed. *)
C36_NoCleanupWithoutFailure ==
    Built =>
        /\ CleanupBlockApart
        /\ (phase \in {"exec", "halted"} /\ FailedAt = {}) =>
              /\ EventsOf("delete") = {}
              /\ pc + 1 \notin CleanupBlock
              /\ \A h \in EventsOf("halt_error") :
                    trace[h].addr + 1 \notin CleanupBlock

(* a run of three inserts that all succeeded has halted with success;
   its program has a clean-up block with two deletes *)
C36_Witness ==
    /\ Halted /\ rc = "ok"
    /\ FailedAt = {}
    /\ Cardinality(EventsOf("insert")) = 3
    /\ Cardinality(DeleteAddresses(parse.aOp)) = 2
    /\ trace[Len(trace)].addr + 1 = NormalHaltAt

(* ------------------------------------------------------------------ *)
(* C39: the key registers of a ledger entry                             *)
(* ------------------------------------------------------------------ *)
(* the register an instruction writes, 0 when it writes none *)
Written(op) ==
    IF op.opcode \in LoadOps THEN RegisterOut(op)
    ELSE IF op.opcode = "MakeRecord" THEN op.p3
    ELSE 0

KeyRegisters(record) ==
    record.reg_key..(record.reg_key + record.reg_key_count - 1)

(* C39: no instruction emitted after the insert of a ledger entry writes
   a key register of that entry, so that the delete sequence of the
   entry builds the key of the entry's own row. *)
C39_KeyRegistersKept ==
    (phase = "end" /\ Parsing) =>
        \A k \in 1..Len(parse.record_list) :
            \A a \in (parse.record_list[k].insertion_opcode + 2)
                     ..Len(parse.aOp) :
                Written(parse.aOp[a]) \notin KeyRegisters(parse.record_list[k])

(* ------------------------------------------------------------------ *)
(* C37: the order of the compensating deletes                           *)
(* ------------------------------------------------------------------ *)
(* the deletes executed after the failure at f that remove the row of
   insert event i *)
DeletesOfRow(f, i) ==
    {d \in EventsOf("delete") :
        /\ d > f
        /\ trace[d].space = trace[i].space
        /\ trace[d].key = trace[i].key}

(* C37: after a failed insert the row of every earlier insert is
   deleted, the rows in the reverse of the order of their insertion, and
   the row of _space, inserted first, is deleted last, just before the
   halt. *)
C37_RowsDeletedInReverse ==
    Halted =>
        \A f \in FailedAt :
            \A i \in InsertsBefore(f) :
                /\ Cardinality(DeletesOfRow(f, i)) = 1
                /\ \A j \in InsertsBefore(f) :
                      i < j => \A d \in DeletesOfRow(f, i),
                                  e \in DeletesOfRow(f, j) : e < d
                /\ trace[i].space = BOX_SPACE_ID =>
                      DeletesOfRow(f, i) = {Len(trace) - 1}

(* ------------------------------------------------------------------ *)
(* C38                                                                  *)
(* ------------------------------------------------------------------ *)
(* the declarations of a primary key the grammar can hand to
   sqlAddPrimaryKey: the last column (no list) or a list of columns *)
PrimaryKeyLists == KeyLists \cup {<<>>}

(* the assertion of sqlAddPrimaryKey fails on the declaration *)
AssertionFails(col_list, cname) ==
    sqlAddPrimaryKey([parse EXCEPT !.has_autoinc = FALSE],
                     col_list, cname).crashed

(* C38: whenever a primary key is declared on the draft table, the
   assertion of sqlAddPrimaryKey that the table has a primary key after
   sql_create_index holds. *)
C38_PrimaryKeyAssertionHolds ==
    (phase \in {"cols", "tcons"} /\ Parsing /\ Len(parse.fields) >= 1) =>
        \A col_list \in PrimaryKeyLists, cname \in ConstraintNames :
            ~AssertionFails(col_list, cname)

(* the assertion is reached without a primary key on the INTEGER path
   after sql_create_index rejected the generated name *)
NameRejectedPathHolds ==
    (phase \in {"cols", "tcons"} /\ Parsing /\ Len(parse.fields) >= 1) =>
        \A col_list \in PrimaryKeyLists :
            ~( /\ AssertionFails(col_list, <<"x65000">>)
               /\ \A i \in 1..Len(parse.index) : parse.index[i].iid # 0
               /\ ~AssertionFails(col_list, <<>>) )

(* the assertion is reached after a unique index outside slot 0 was
   retagged as the primary key *)
RetaggedPathHolds ==
    (phase \in {"cols", "tcons"} /\ Parsing /\ Len(parse.fields) >= 1) =>
        \A col_list \in PrimaryKeyLists :
            LET q == sqlAddPrimaryKey([parse EXCEPT !.has_autoinc = FALSE],
                                      col_list, <<>>)
            IN ~( /\ q.crashed /\ ~q.is_aborted
                  /\ \E i \in 2..Len(q.index) : q.index[i].iid = 0 )

(* ------------------------------------------------------------------ *)
(* C40                                                                  *)
(* ------------------------------------------------------------------ *)
(* the presence test at the program counter takes its jump: the tested
   condition holds and the statement goes on *)
TestPassed ==
    /\ Running /\ CurOp.opcode = "NoConflict"
    /\ phase' = "exec" /\ rc' = "running"
    /\ pc' >= CurOp.p2

(* C40: when a presence test lets the statement go on, the cursor opened
   for the test is closed when the next instruction of the statement
   is reached. *)
C40_TestCursorClosed ==
    [][TestPassed => \A c \in csr' : c.id # CurOp.p1]_vars

====
